---- MODULE Spec2Model ----
(***************************************************************************)
(* Model of the SPL token custody analysis engine                          *)
(* (src/spl_token_analysis.py): the account classifier, the Token-2022     *)
(* extension parser, the risk scorer TokenDetails.to_dict and the batch    *)
(* orchestrator process_tokens_concurrently.                               *)
(***************************************************************************)
EXTENDS Integers, Sequences, FiniteSets, TLC

(***************************************************************************)
(* Bounds of the model                                                     *)
(***************************************************************************)
\* longest batch handed to process_tokens_concurrently
MaxBatch == 2
\* longest extension list of a Token-2022 mint
MaxExt == 2
\* largest transferFeeBasisPoints the upstream reports
MaxFee == 1
\* longest name and longest symbol stored in a metadata side-record
MaxName == 2
MaxSymbol == 1
\* most signatures getSignaturesForAddress returns, most accounts of a transaction
MaxSignatures == 2
MaxAccounts == 3
MaxClicks == 4

(***************************************************************************)
(* Program constants                                                       *)
(***************************************************************************)
TOKEN_PROGRAM == "TokenkegQfeZyiNwAJbNbGKPFXCWuBvf9Ss623VQ5DA"
TOKEN_2022_PROGRAM == "TokenzQdBNbLqP5VEhdkAS6EPFLC1PHnBqCXEpPxuEb"
SYSTEM_PROGRAM == "11111111111111111111111111111111"
PUMP_UPDATE_AUTHORITY == "TSLvdd1pWpHVjahSpsvCXUbgwsL3JAcvokwaKt1eokM"
PUMP_LABELLED == PUMP_UPDATE_AUTHORITY \o " (Pump.Fun Mint Authority)"
CONCURRENT_LIMIT == 1
MAX_RETRIES == 4
\* seconds
BASE_DELAY == 2
RETRY_DELAY == 2
PUMP_PROGRAM == "6EF8rrecthR5Dkzon8Nwu78hRvfCKubJ14M5uBEwF6P"
RAYDIUM_AMM_PROGRAM == "EhhTKJ6M13fa4jc281HpdyiNpAHj8uvxymgZqGuDs9Jj"

(***************************************************************************)
(* Python values.  None is Python's None for string-valued fields, NoFee   *)
(* is None in the integer field transfer_fee, NoExt is extensions=None and *)
(* Missing is a key that a JSON object does not carry.                     *)
(***************************************************************************)
None == "<None>"
Missing == "<missing>"
NoFee == -1
NoExt == << >>

\* Python truthiness of an Optional[str]: None and "" are falsy
Truthy(v) == v /= None /\ v /= ""

\* dict.get(key, default) on a JSON object field that may be missing
GetOr(v, default) == IF v = Missing THEN default ELSE v

(***************************************************************************)
(* Token2022Extensions, MitigationDetails, TokenDetails                    *)
(***************************************************************************)
Token2022Extensions ==
    [permanent_delegate |-> None,
     transfer_fee |-> NoFee,
     transfer_hook_authority |-> None,
     confidential_transfers_authority |-> None]

MitigationDetails(documentation) ==
    [documentation |-> documentation, applied |-> FALSE]

\* field(default_factory=dict): the empty mitigation map
NoMitigations == [k \in {} |-> MitigationDetails("")]

\* the dataclass constructor with the defaults of the fields not passed
TokenDetails(name, symbol, address, owner_program, freeze_authority, security_review) ==
    [name |-> name,
     symbol |-> symbol,
     address |-> address,
     owner_program |-> owner_program,
     freeze_authority |-> freeze_authority,
     update_authority |-> None,
     extensions |-> NoExt,
     is_genuine_pump_fun_token |-> FALSE,
     interacted_with |-> None,
     interacting_account |-> None,
     interaction_signature |-> None,
     security_review |-> security_review,
     token_graduated_to_raydium |-> FALSE,
     mitigations |-> NoMitigations]

\* self.mitigations.get(check, MitigationDetails('')).applied
MitigationApplied(mitigations, check) ==
    IF check \in DOMAIN mitigations
    THEN mitigations[check].applied
    ELSE MitigationDetails("").applied

(***************************************************************************)
(* The owner_program label is a formatted string "<id> (<annotation>)";    *)
(* it is kept as its two parts so that the consumers' substring test       *)
(* '"Token 2022" in owner_program' can be evaluated.                       *)
(***************************************************************************)
OwnerText(id, note) == [id |-> id, note |-> note]

OWNER_LABELS ==
    [p \in {TOKEN_PROGRAM, TOKEN_2022_PROGRAM} |->
        IF p = TOKEN_PROGRAM THEN "Token Program" ELSE "Token 2022 Program"]

get_owner_program_label(owner_address) ==
    IF owner_address \in DOMAIN OWNER_LABELS
    THEN OWNER_LABELS[owner_address]
    ELSE "Unknown Owner"

(***************************************************************************)
(* Upstream JSON shapes.  An extension entry of a jsonParsed Token-2022    *)
(* mint is {"extension": tag, "state": {...}}; the state keys the parser   *)
(* reads are kept as fields (Missing / None when the state lacks them).    *)
(***************************************************************************)
Authorities == {None, "Authority"}
Fees == {NoFee} \cup (0..MaxFee)

ExtensionEntry(tag, name, symbol, delegate, fee, authority) ==
    [extension |-> tag, name |-> name, symbol |-> symbol,
     delegate |-> delegate, fee |-> fee, authority |-> authority]

ExtensionEntries ==
    {ExtensionEntry("tokenMetadata", n, Missing, None, NoFee, None) :
        n \in {Missing, "ExtName"}}
    \cup {ExtensionEntry("permanentDelegate", Missing, Missing, a, NoFee, None) :
        a \in Authorities}
    \cup {ExtensionEntry("transferFeeConfig", Missing, Missing, None, f, None) :
        f \in Fees}
    \cup {ExtensionEntry("transferHook", Missing, Missing, None, NoFee, a) :
        a \in Authorities}
    \cup {ExtensionEntry("confidentialTransferMint", Missing, Missing, None, NoFee, a) :
        a \in Authorities}
    \cup {ExtensionEntry("interestBearingConfig", Missing, Missing, None, NoFee, None)}

ExtensionLists == UNION {[1..n -> ExtensionEntries] : n \in 0..MaxExt}

(***************************************************************************)
(* process_token_2022_extensions                                           *)
(***************************************************************************)
\* one pass of the loop over extensions_info; acc carries name, symbol and
\* the Token2022Extensions under construction
RECURSIVE parse_extensions(_, _)
parse_extensions(acc, extensions_info) ==
    IF extensions_info = << >> THEN acc
    ELSE LET extension == Head(extensions_info)
             ext_type == extension.extension
             next ==
                 CASE ext_type = "tokenMetadata" ->
                        [acc EXCEPT !.name = GetOr(extension.name, @),
                                    !.symbol = GetOr(extension.symbol, @)]
                   [] ext_type = "permanentDelegate" ->
                        [acc EXCEPT !.extensions.permanent_delegate = extension.delegate]
                   [] ext_type = "transferFeeConfig" ->
                        [acc EXCEPT !.extensions.transfer_fee = extension.fee]
                   [] ext_type = "transferHook" ->
                        [acc EXCEPT !.extensions.transfer_hook_authority = extension.authority]
                   [] ext_type = "confidentialTransferMint" ->
                        [acc EXCEPT !.extensions.confidential_transfers_authority =
                                        extension.authority]
                   [] OTHER -> acc
         IN parse_extensions(next, Tail(extensions_info))

\* mutant: a zero transfer fee is counted as a security feature
has_security_features_fee_present(freeze_authority, extensions) ==
    \/ freeze_authority /= None
    \/ extensions.permanent_delegate /= None
    \/ extensions.transfer_hook_authority /= None
    \/ extensions.confidential_transfers_authority /= None
    \/ extensions.transfer_fee /= NoFee

\* any([...]) over the five unmitigated risk factors
has_security_features(freeze_authority, extensions) ==
    \/ freeze_authority /= None
    \/ extensions.permanent_delegate /= None
    \/ extensions.transfer_hook_authority /= None
    \/ extensions.confidential_transfers_authority /= None
    \/ extensions.transfer_fee \notin {NoFee, 0}

\* mutant: the extensions block is attached only when the mint lists an extension
process_token_2022_extensions_when_listed(token_details, info) ==
    LET parsed == parse_extensions(
                      [name |-> token_details.name,
                       symbol |-> token_details.symbol,
                       extensions |-> Token2022Extensions],
                      info.extensions)
    IN [token_details EXCEPT
            !.name = parsed.name,
            !.symbol = parsed.symbol,
            !.extensions = IF info.extensions = << >> THEN NoExt ELSE <<parsed.extensions>>,
            !.security_review =
                IF has_security_features(token_details.freeze_authority, parsed.extensions)
                THEN "FAILED" ELSE "PASSED"]

process_token_2022_extensions(token_details, info) ==
    LET parsed == parse_extensions(
                      [name |-> token_details.name,
                       symbol |-> token_details.symbol,
                       extensions |-> Token2022Extensions],
                      info.extensions)
    IN [token_details EXCEPT
            !.name = parsed.name,
            !.symbol = parsed.symbol,
            !.extensions = <<parsed.extensions>>,
            !.security_review =
                IF has_security_features(token_details.freeze_authority, parsed.extensions)
                THEN "FAILED" ELSE "PASSED"]

(***************************************************************************)
(* process_token_data.  account_data is result.value of getAccountInfo:    *)
(* owner (Missing when the key is absent) and data, which is the parsed    *)
(* object {"parsed": {"info": ...}} or, when the node could not parse the  *)
(* account, a [base64, "base64"] list on which .get raises AttributeError. *)
(***************************************************************************)
Raised == [raised |-> TRUE]
Returned(details, owner_program) ==
    [raised |-> FALSE, details |-> details, owner_program |-> owner_program]

\* mutant: the parsed payload is read before the owner is looked at
process_token_data_payload_first(account_data, token_address) ==
    LET owner_program == GetOr(account_data.owner, "N/A")
    IN  IF ~account_data.data.parsed
        THEN Raised
        ELSE IF owner_program = SYSTEM_PROGRAM
        THEN Returned(TokenDetails("N/A", "N/A", token_address,
                                   OwnerText("System Program", None),
                                   None, "NOT_A_TOKEN"),
                      owner_program)
        ELSE IF owner_program \notin {TOKEN_PROGRAM, TOKEN_2022_PROGRAM}
        THEN Returned(TokenDetails("N/A", "N/A", token_address,
                                   OwnerText(owner_program, "Not a token program"),
                                   None, "NOT_A_TOKEN"),
                      owner_program)
        ELSE IF ~account_data.data.parsed
        THEN Raised
        ELSE LET info == account_data.data.info
                 owner_label == get_owner_program_label(owner_program)
                 freeze_authority == info.freezeAuthority
                 \* security_review is the dataclass default until it is set below
                 base_details == TokenDetails(GetOr(info.name, "N/A"),
                                              GetOr(info.symbol, "N/A"),
                                              token_address,
                                              OwnerText(owner_program, owner_label),
                                              freeze_authority, "FAILED")
             IN CASE owner_program = TOKEN_PROGRAM ->
                       Returned([base_details EXCEPT !.security_review =
                                    IF freeze_authority = None THEN "PASSED" ELSE "FAILED"],
                                owner_program)
                  [] owner_program = TOKEN_2022_PROGRAM ->
                       Returned(process_token_2022_extensions(base_details, info),
                                owner_program)
                  [] OTHER ->
                       Returned([base_details EXCEPT !.security_review = "FAILED"],
                                owner_program)

process_token_data(account_data, token_address) ==
    LET owner_program == GetOr(account_data.owner, "N/A")
    IN  IF owner_program = SYSTEM_PROGRAM
        THEN Returned(TokenDetails("N/A", "N/A", token_address,
                                   OwnerText("System Program", None),
                                   None, "NOT_A_TOKEN"),
                      owner_program)
        ELSE IF owner_program \notin {TOKEN_PROGRAM, TOKEN_2022_PROGRAM}
        THEN Returned(TokenDetails("N/A", "N/A", token_address,
                                   OwnerText(owner_program, "Not a token program"),
                                   None, "NOT_A_TOKEN"),
                      owner_program)
        ELSE IF ~account_data.data.parsed
        THEN Raised
        ELSE LET info == account_data.data.info
                 owner_label == get_owner_program_label(owner_program)
                 freeze_authority == info.freezeAuthority
                 \* security_review is the dataclass default until it is set below
                 base_details == TokenDetails(GetOr(info.name, "N/A"),
                                              GetOr(info.symbol, "N/A"),
                                              token_address,
                                              OwnerText(owner_program, owner_label),
                                              freeze_authority, "FAILED")
             IN CASE owner_program = TOKEN_PROGRAM ->
                       Returned([base_details EXCEPT !.security_review =
                                    IF freeze_authority = None THEN "PASSED" ELSE "FAILED"],
                                owner_program)
                  [] owner_program = TOKEN_2022_PROGRAM ->
                       Returned(process_token_2022_extensions(base_details, info),
                                owner_program)
                  [] OTHER ->
                       Returned([base_details EXCEPT !.security_review = "FAILED"],
                                owner_program)

(***************************************************************************)
(* TokenDetails.to_dict: the projection handed to every consumer, with the *)
(* security review recomputed from the risk factors and the mitigations.   *)
(***************************************************************************)
\* mutant: the "not" of the freeze authority test is lost
has_unmitigated_risks_inverted(self) ==
    \/ Truthy(self.freeze_authority) /\ MitigationApplied(self.mitigations, "freeze_authority")
    \/ /\ self.extensions /= NoExt
       /\ LET extensions == self.extensions[1]
          IN \/ /\ Truthy(extensions.permanent_delegate)
                /\ ~MitigationApplied(self.mitigations, "permanent_delegate")
             \/ /\ Truthy(extensions.transfer_hook_authority)
                /\ ~MitigationApplied(self.mitigations, "transfer_hook")
             \/ /\ Truthy(extensions.confidential_transfers_authority)
                /\ ~MitigationApplied(self.mitigations, "confidential_transfers")
             \/ /\ extensions.transfer_fee \notin {NoFee, 0}
                /\ ~MitigationApplied(self.mitigations, "transfer_fees")

\* mutant: the extension factors are scored whatever the mitigations say
has_unmitigated_risks_freeze_only(self) ==
    \/ Truthy(self.freeze_authority) /\ ~MitigationApplied(self.mitigations, "freeze_authority")
    \/ /\ self.extensions /= NoExt
       /\ LET extensions == self.extensions[1]
          IN \/ Truthy(extensions.permanent_delegate)
             \/ Truthy(extensions.transfer_hook_authority)
             \/ Truthy(extensions.confidential_transfers_authority)
             \/ extensions.transfer_fee \notin {NoFee, 0}

has_unmitigated_risks(self) ==
    \/ Truthy(self.freeze_authority) /\ ~MitigationApplied(self.mitigations, "freeze_authority")
    \/ /\ self.extensions /= NoExt
       /\ LET extensions == self.extensions[1]
          IN \/ /\ Truthy(extensions.permanent_delegate)
                /\ ~MitigationApplied(self.mitigations, "permanent_delegate")
             \/ /\ Truthy(extensions.transfer_hook_authority)
                /\ ~MitigationApplied(self.mitigations, "transfer_hook")
             \/ /\ Truthy(extensions.confidential_transfers_authority)
                /\ ~MitigationApplied(self.mitigations, "confidential_transfers")
             \/ /\ extensions.transfer_fee \notin {NoFee, 0}
                /\ ~MitigationApplied(self.mitigations, "transfer_fees")

\* result['security_review']
to_dict_security_review(self) ==
    IF has_unmitigated_risks(self) THEN "FAILED" ELSE "PASSED"

to_dict(self) ==
    LET base ==
            [name |-> self.name,
             symbol |-> self.symbol,
             address |-> self.address,
             owner_program |-> self.owner_program,
             freeze_authority |-> self.freeze_authority,
             update_authority |->
                 IF self.update_authority = PUMP_UPDATE_AUTHORITY
                 THEN PUMP_LABELLED ELSE self.update_authority]
        ext ==
            IF self.extensions /= NoExt
            THEN [permanent_delegate |-> self.extensions[1].permanent_delegate,
                  transaction_fees |-> self.extensions[1].transfer_fee,
                  transfer_hook |-> self.extensions[1].transfer_hook_authority,
                  confidential_transfers |->
                      self.extensions[1].confidential_transfers_authority]
            ELSE << >>
        pump ==
            IF self.update_authority = PUMP_UPDATE_AUTHORITY
            THEN [is_genuine_pump_fun_token |-> self.is_genuine_pump_fun_token,
                  token_graduated_to_raydium |-> self.token_graduated_to_raydium]
            ELSE << >>
        interaction ==
            IF /\ self.update_authority = PUMP_UPDATE_AUTHORITY
               /\ self.is_genuine_pump_fun_token
               /\ Truthy(self.interacted_with)
            THEN [interacted_with |-> self.interacted_with,
                  interacting_account |-> self.interacting_account,
                  interaction_signature |-> self.interaction_signature]
            ELSE << >>
        rest ==
            [mitigations |->
                 [check \in DOMAIN self.mitigations |->
                     [documentation |-> self.mitigations[check].documentation,
                      applied |-> self.mitigations[check].applied]],
             security_review |-> to_dict_security_review(self)]
    IN base @@ ext @@ pump @@ interaction @@ rest

\* mutant: to_dict writes the recomputed review back into the record
to_dict_self_writes_review(self) ==
    [self EXCEPT !.security_review = to_dict_security_review(self)]

\* the TokenDetails object after a call of to_dict: no field is assigned
to_dict_self(self) == self

(***************************************************************************)
(* get_token_details_async, piece by piece.  metadata is what get_metadata *)
(* returned: NoMetadata (None) or <<dict>>.  A response of the mint fetch  *)
(* is an exception (network error, body that is no JSON, a result without  *)
(* "value") or the decoded JSON, whose result.value is absent (<< >>: no   *)
(* such account, or a JSON-RPC error object) or <<account_data>>.          *)
(***************************************************************************)
NoMetadata == << >>
Metadata(name, symbol, update_authority) ==
    <<[name |-> name, symbol |-> symbol, update_authority |-> update_authority]>>

ResponseException == [kind |-> "exception"]
ResponseJson(value) == [kind |-> "json", value |-> value]

\* lines 471-474: name, symbol and update authority taken from the metadata
apply_metadata(token_details, metadata) ==
    IF metadata /= NoMetadata
    THEN [token_details EXCEPT !.name = metadata[1].name,
                               !.symbol = metadata[1].symbol,
                               !.update_authority = metadata[1].update_authority]
    ELSE token_details

\* lines 478-487: the record built when the upstream has no account data
no_account_data(metadata, token_address) ==
    [TokenDetails(IF metadata /= NoMetadata THEN metadata[1].name ELSE "N/A",
                  IF metadata /= NoMetadata THEN metadata[1].symbol ELSE "N/A",
                  token_address,
                  OwnerText(TOKEN_PROGRAM, None),
                  None, "FAILED")
        EXCEPT !.update_authority =
                   IF metadata /= NoMetadata THEN metadata[1].update_authority ELSE None]

\* mutant: the handler logs and re-raises
except_handler_reraise(token_address) ==
    [propagate |-> TRUE,
     details |-> TokenDetails("ERROR", "ERROR", token_address,
                              OwnerText("Error", None), None, "FAILED")]

\* lines 504-513: except Exception: the failure becomes an ERROR record
except_handler(token_address) ==
    [propagate |-> FALSE,
     details |-> TokenDetails("ERROR", "ERROR", token_address,
                              OwnerText("Error", None), None, "FAILED")]

\* lines 463-487: what the try block has in token_details after the fetch,
\* or that an exception left it
fetch_and_classify(response, metadata, token_address) ==
    IF response.kind = "exception" THEN Raised
    ELSE IF response.value /= << >>
    THEN LET classified == process_token_data(response.value[1], token_address)
         IN IF classified.raised THEN Raised
            ELSE Returned(apply_metadata(classified.details, metadata),
                          classified.owner_program)
    ELSE Returned(no_account_data(metadata, token_address), TOKEN_PROGRAM)

\* mutant: any resolved update authority sends the mint to the verifier
is_pump_authority_any(metadata) == metadata /= NoMetadata

\* line 490 (and, negated, line 248)
is_pump_authority(metadata) ==
    metadata /= NoMetadata /\ metadata[1].update_authority = PUMP_UPDATE_AUTHORITY

\* the tuples verify_pump_token returns
VerifyOutcomes ==
    {<<FALSE, None, None, None>>,
     <<TRUE, "raydium", None, None>>,
     <<TRUE, "pump.fun", "Account", "Signature">>,
     <<TRUE, "raydium", "Account", "Signature">>}

\* lines 494-500
\* mutant: every genuine token counts as graduated
apply_verification_any_kind(token_details, verified) ==
    [token_details EXCEPT
        !.is_genuine_pump_fun_token = verified[1],
        !.interacted_with = verified[2],
        !.interacting_account = verified[3],
        !.interaction_signature = verified[4],
        !.token_graduated_to_raydium = verified[1]]

apply_verification(token_details, verified) ==
    [token_details EXCEPT
        !.is_genuine_pump_fun_token = verified[1],
        !.interacted_with = verified[2],
        !.interacting_account = verified[3],
        !.interaction_signature = verified[4],
        !.token_graduated_to_raydium = (verified[1] /\ verified[2] = "raydium")]

(***************************************************************************)
(* get_metadata, lines 93-140: the decode of the side-record's bytes.      *)
(* decoded_data is a sequence of byte values.  Slices, int.from_bytes,     *)
(* PublicKey and bytes.decode behave as in Python: a slice past the end is *)
(* cut short, int.from_bytes of no bytes is 0, PublicKey of anything but   *)
(* 32 bytes raises, and decode raises on a byte that is not UTF-8 (here:   *)
(* any byte above 127; multi-byte sequences are not modelled).             *)
(***************************************************************************)
Min(a, b) == IF a < b THEN a ELSE b

\* decoded_data[start:stop]
Slice(bytes, start, stop) == SubSeq(bytes, start + 1, Min(stop, Len(bytes)))

\* int.from_bytes(bytes, byteorder='little')
RECURSIVE int_from_bytes(_)
int_from_bytes(bytes) ==
    IF bytes = << >> THEN 0
    ELSE Head(bytes) + 256 * int_from_bytes(Tail(bytes))

\* the 32 bytes of the public keys the model knows, and their base58 text
KeyByte == [k \in {PUMP_UPDATE_AUTHORITY, "UpdateAuthority"} |->
               IF k = PUMP_UPDATE_AUTHORITY THEN 7 ELSE 9]
KeyBytes(k) == [j \in 1..32 |-> KeyByte[k]]

\* str(PublicKey(bytes)): raises ValueError unless there are exactly 32 bytes
PublicKey(bytes) ==
    IF Len(bytes) /= 32 THEN Raised
    ELSE [raised |-> FALSE,
          value |-> IF \E k \in DOMAIN KeyByte : KeyBytes(k) = bytes
                    THEN CHOOSE k \in DOMAIN KeyByte : KeyBytes(k) = bytes
                    ELSE "UnknownKey"]

\* the characters of the bytes the model uses
Chr(byte) ==
    CASE byte = 65 -> "A"
      [] byte = 66 -> "B"
      [] byte = 0 -> "^@"
      [] OTHER -> "?"

\* str.rstrip('\x00') done on the bytes: NUL decodes to '\x00'
RECURSIVE rstrip_nul(_)
rstrip_nul(bytes) ==
    IF bytes /= << >> /\ bytes[Len(bytes)] = 0
    THEN rstrip_nul(SubSeq(bytes, 1, Len(bytes) - 1))
    ELSE bytes

RECURSIVE Text(_)
Text(bytes) == IF bytes = << >> THEN "" ELSE Chr(Head(bytes)) \o Text(Tail(bytes))

\* bytes.decode('utf-8').rstrip('\x00'): raises UnicodeDecodeError
decode_rstrip(bytes) ==
    IF \E j \in DOMAIN bytes : bytes[j] > 127 THEN Raised
    ELSE [raised |-> FALSE, value |-> Text(rstrip_nul(bytes))]

\* line 97: if len(decoded_data) < 8
too_short(decoded_data) == Len(decoded_data) < 8

\* lines 97-140: None, or the dictionary of name, symbol and update authority;
\* both except clauses return None
parse_metadata(decoded_data) ==
    IF too_short(decoded_data) THEN NoMetadata
    ELSE LET update_authority == PublicKey(Slice(decoded_data, 1, 33))
             name_length == int_from_bytes(Slice(decoded_data, 65, 69))
             name == IF name_length > 0
                     THEN decode_rstrip(Slice(decoded_data, 69, 69 + name_length))
                     ELSE [raised |-> FALSE, value |-> "N/A"]
             offset == 69 + name_length
             symbol_length == int_from_bytes(Slice(decoded_data, offset, offset + 4))
             symbol == IF symbol_length > 0
                       THEN decode_rstrip(Slice(decoded_data, offset + 4,
                                                offset + 4 + symbol_length))
                       ELSE [raised |-> FALSE, value |-> "N/A"]
         IN IF update_authority.raised \/ name.raised \/ symbol.raised
            THEN NoMetadata
            ELSE Metadata(name.value, symbol.value, update_authority.value)

(***************************************************************************)
(* process_tokens_concurrently                                             *)
(***************************************************************************)
\* isinstance(details, TokenDetails): a record of the dataclass, not a message
isinstance_TokenDetails(details) == "security_review" \in DOMAIN details

\* lines 612-622: the dictionary process_single_token returns
process_single_token(token_address, details) ==
    IF isinstance_TokenDetails(details)
    THEN to_dict(details) @@ [address |-> token_address, status |-> "success"]
    ELSE [address |-> token_address, status |-> "error", error |-> details]

\* helper of the mutant below: the first occurrences of a list, in order
RECURSIVE FirstOccurrences(_, _)
FirstOccurrences(list, seen) ==
    IF list = << >> THEN << >>
    ELSE IF Head(list) \in seen THEN FirstOccurrences(Tail(list), seen)
    ELSE <<Head(list)>> \o FirstOccurrences(Tail(list), seen \cup {Head(list)})

\* mutant: one task per distinct address
gather_tasks_distinct(addresses) == FirstOccurrences(addresses, {})

\* lines 624-626: one awaitable per (idx, addr) of enumerate(token_addresses)
gather_tasks(addresses) == [idx \in 1..Len(addresses) |-> addresses[idx]]

(***************************************************************************)
(* State                                                                   *)
(***************************************************************************)
VARIABLES
    token_addresses,  \* the list handed to process_tokens_concurrently
    ledger,           \* what the upstream holds for each address
    pc,               \* pc[i]: where process_single_token(addr, i) stands
    metadata,         \* metadata[i]: what get_metadata returned
    observed,         \* observed[i]: the upstream responses task i received
    classified,       \* classified[i]: what process_token_data returned
    details,          \* details[i]: the TokenDetails of task i
    raised,           \* raised[i]: get_token_details_async caught an exception
    semaphore,        \* free permits of asyncio.Semaphore(CONCURRENT_LIMIT)
    results,          \* results[i]: what process_single_token returned
    gathered,         \* "off", "running", "returned", or "aborted" by a raise
    returned,         \* the list asyncio.gather returned
    self,             \* the TokenDetails under review by the risk scorer
    review,           \* security_review of the last to_dict(self), "NONE" before
    decoded_data,     \* the bytes of a metadata side-record
    parsed,           \* <<what the decode of decoded_data returned>>, << >> before
    at,               \* where the analysis stands between two pc values
    retry,            \* the loop variable of get_metadata
    status,           \* HTTP status of the last response, 0 before it and on a raise
    log,              \* the sleeps awaited and the requests sent, in order
    scan,             \* verify_pump_token: signatures, accounts and loop positions
    report,           \* the result_dict the command line hands to the report, << >> before
    session,          \* st.session_state of the dashboard
    notice,           \* what the last script run of the dashboard did and showed
    clicks            \* the interactions with the dashboard so far

vars == <<token_addresses, ledger, pc, metadata, observed, classified, details,
          raised, semaphore, results, gathered, returned, self, review,
          decoded_data, parsed, at, retry, status, log, scan,
          report, session, notice, clicks>>

batch_vars == <<token_addresses, ledger, pc, metadata, observed, classified,
                details, raised, semaphore, results, gathered, returned>>
scorer_vars == <<self, review>>
decode_vars == <<decoded_data, parsed>>
client_vars == <<at, retry, status, log, scan>>
front_vars == <<report, session, notice, clicks>>

\* no batch is running
BatchOff ==
    /\ token_addresses = << >>
    /\ ledger = << >>
    /\ pc = << >>
    /\ metadata = << >>
    /\ observed = << >>
    /\ classified = << >>
    /\ details = << >>
    /\ raised = << >>
    /\ semaphore = CONCURRENT_LIMIT
    /\ results = << >>
    /\ gathered = "off"
    /\ returned = << >>

(***************************************************************************)
(* The batch orchestrator as a state machine.  Task i runs                 *)
(* process_single_token(token_addresses[i], i): it waits for the           *)
(* semaphore, awaits get_metadata, awaits the mint fetch and classifies,   *)
(* awaits verify_pump_token when the update authority is the reserved one, *)
(* and returns its dictionary on leaving the semaphore.                    *)
(***************************************************************************)
Tasks == DOMAIN gather_tasks(token_addresses)
TaskAddress(i) == gather_tasks(token_addresses)[i]

NoObservation == [response |-> << >>, verified |-> << >>]

\* the state gather starts from: every task created, none admitted
BatchStart(addresses, upstream) ==
    /\ token_addresses = addresses
    /\ ledger = upstream
    /\ pc = [i \in DOMAIN gather_tasks(addresses) |-> "created"]
    /\ metadata = [i \in DOMAIN gather_tasks(addresses) |-> NoMetadata]
    /\ observed = [i \in DOMAIN gather_tasks(addresses) |-> NoObservation]
    /\ classified = [i \in DOMAIN gather_tasks(addresses) |-> << >>]
    /\ details = [i \in DOMAIN gather_tasks(addresses) |-> << >>]
    /\ raised = [i \in DOMAIN gather_tasks(addresses) |-> FALSE]
    /\ semaphore = CONCURRENT_LIMIT
    /\ results = [i \in DOMAIN gather_tasks(addresses) |-> << >>]
    /\ gathered = "running"
    /\ returned = << >>

\* no side-record is being decoded
DecodeOff ==
    /\ decoded_data = << >>
    /\ parsed = << >>

\* verify_pump_token before its first request: raydium_data and acc_owner
\* are <<what the last response carried>>, pass is the loop over accounts
\* (1: lines 348-392, 2: lines 408-436), inspected lists the accounts asked
\* about as <<signature index, pass, account index>>
NoScan ==
    [raydium_data |-> << >>, signatures |-> << >>, sig_info |-> 0,
     accounts |-> << >>, idx |-> 0, pass |-> 0, acc_owner |-> << >>,
     inspected |-> << >>]

\* the locals of an analysis before its first request
ClientOff ==
    /\ at = "enter"
    /\ retry = 0
    /\ status = 0
    /\ log = << >>
    /\ scan = NoScan

\* app.py lines 12-15: the session state of a new session, no script run
\* yet; analysis_results is <<the result>>, and << >> stands for the None of
\* both results, which the script only tests for truth
NoSession ==
    [analysis_results |-> << >>, batch_results |-> << >>, batch_mitigations |-> << >>]

NoNotice == [run |-> "none", target |-> << >>, raised |-> FALSE, shown |-> ""]

\* no front door is in use
FrontOff ==
    /\ report = << >>
    /\ session = NoSession
    /\ notice = NoNotice
    /\ clicks = 0

ScorerOff ==
    /\ self = TokenDetails("N/A", "N/A", "Mint", OwnerText(TOKEN_PROGRAM, None), None, "FAILED")
    /\ review = "NONE"

\* mutant: leaving the block keeps the permit
release_lost(value) == value

\* asyncio.Semaphore: leaving the async with block, by return or by
\* exception, gives the permit back
release(value) == value + 1

\* mutant: the semaphore never makes a task wait
locked_never(value) == FALSE

\* asyncio.Semaphore: acquire waits while no permit is free
locked(value) == value <= 0

\* async with semaphore: tasks reach the semaphore in creation order and its
\* waiters are woken first come, first served
AdmitTask(i) ==
    /\ gathered = "running"
    /\ pc[i] = "created"
    /\ ~locked(semaphore)
    /\ \A j \in Tasks : j < i => pc[j] /= "created"
    /\ semaphore' = semaphore - 1
    /\ pc' = [pc EXCEPT ![i] = "get_metadata"]
    /\ UNCHANGED <<token_addresses, ledger, metadata, observed, classified, details,
                   raised, results, gathered, returned, self, review, decode_vars, front_vars>>

Admit(i) ==
    /\ AdmitTask(i)
    /\ UNCHANGED client_vars

\* metadata = await get_metadata(session, token_address): the decoded
\* side-record, or None on any failure (every failure is absorbed there)
GetMetadata(i) ==
    /\ gathered = "running"
    /\ pc[i] = "get_metadata"
    /\ \E outcome \in {ledger[TaskAddress(i)].metadata, NoMetadata} :
           metadata' = [metadata EXCEPT ![i] = outcome]
    /\ pc' = [pc EXCEPT ![i] = "fetch_mint"]
    /\ UNCHANGED <<token_addresses, ledger, observed, classified, details, raised,
                   semaphore, results, gathered, returned, self, review, decode_vars, front_vars, client_vars>>

\* lines 464-490 and 504-513: what the analysis does with the response to
\* the mint fetch: the classification, the metadata overlay, and the except
\* clause when any of them raised
FetchMintResponse(i, response) ==
    LET outcome == fetch_and_classify(response, metadata[i], TaskAddress(i))
        handler == except_handler(TaskAddress(i))
    IN /\ observed' = [observed EXCEPT ![i].response = <<response>>]
       /\ classified' = [classified EXCEPT ![i] =
              IF response.kind = "json" /\ response.value /= << >>
              THEN <<process_token_data(response.value[1], TaskAddress(i))>>
              ELSE << >>]
       /\ raised' = [raised EXCEPT ![i] = outcome.raised]
       /\ IF ~outcome.raised
          THEN /\ details' = [details EXCEPT ![i] = outcome.details]
               /\ pc' = [pc EXCEPT ![i] =
                      IF is_pump_authority(metadata[i])
                      THEN "verify_pump_token" ELSE "to_dict"]
               /\ UNCHANGED gathered
          ELSE IF ~handler.propagate
          THEN /\ details' = [details EXCEPT ![i] = handler.details]
               /\ pc' = [pc EXCEPT ![i] = "to_dict"]
               /\ UNCHANGED gathered
          ELSE \* the exception leaves the task and gather re-raises it
               /\ pc' = [pc EXCEPT ![i] = "failed"]
               /\ gathered' = "aborted"
               /\ UNCHANGED details
       /\ UNCHANGED <<token_addresses, ledger, metadata, semaphore, results, returned,
                      self, review, decode_vars, front_vars>>

\* lines 463-490 and 504-513: the mint fetch and what follows from its response
FetchMint(i) ==
    /\ gathered = "running"
    /\ pc[i] = "fetch_mint"
    /\ \E response \in {ResponseJson(ledger[TaskAddress(i)].mint), ResponseException} :
           FetchMintResponse(i, response)
    /\ UNCHANGED client_vars

\* lines 494-500: the tuple of verify_pump_token is stored in the record
VerifyReturn(i, verified) ==
    /\ observed' = [observed EXCEPT ![i].verified = <<verified>>]
    /\ details' = [details EXCEPT ![i] = apply_verification(details[i], verified)]
    /\ pc' = [pc EXCEPT ![i] = "to_dict"]
    /\ UNCHANGED <<token_addresses, ledger, metadata, classified, raised, semaphore,
                   results, gathered, returned, self, review, decode_vars, front_vars>>

\* lines 492-500: await verify_pump_token and store its tuple
VerifyPumpToken(i) ==
    /\ gathered = "running"
    /\ pc[i] = "verify_pump_token"
    /\ \E verified \in VerifyOutcomes : VerifyReturn(i, verified)
    /\ UNCHANGED client_vars

\* lines 612-622: the task's dictionary; leaving the block frees the permit
ReturnResult(i) ==
    /\ gathered = "running"
    /\ pc[i] = "to_dict"
    /\ results' = [results EXCEPT ![i] = process_single_token(TaskAddress(i), details[i])]
    /\ details' = [details EXCEPT ![i] = to_dict_self(details[i])]
    /\ semaphore' = release(semaphore)
    /\ pc' = [pc EXCEPT ![i] = "done"]
    /\ UNCHANGED <<token_addresses, ledger, metadata, observed, classified, raised,
                   gathered, returned, self, review, decode_vars, front_vars, client_vars>>

\* asyncio.gather returns the results in the order of its awaitables
GatherReturn ==
    /\ gathered = "running"
    /\ \A i \in Tasks : pc[i] = "done"
    /\ returned' = [i \in Tasks |-> results[i]]
    /\ gathered' = "returned"
    /\ UNCHANGED <<token_addresses, ledger, pc, metadata, observed, classified,
                   details, raised, semaphore, results, self, review, decode_vars, front_vars, client_vars>>

Next ==
    \/ \E i \in Tasks : Admit(i)
    \/ \E i \in Tasks : GetMetadata(i)
    \/ \E i \in Tasks : FetchMint(i)
    \/ \E i \in Tasks : VerifyPumpToken(i)
    \/ \E i \in Tasks : ReturnResult(i)
    \/ GatherReturn

(***************************************************************************)
(* What the upstream can hold for an address: the metadata side-record as  *)
(* get_metadata decodes it (or none), and result.value of the mint's       *)
(* getAccountInfo (<< >> when there is no such account or the address is   *)
(* not one).                                                               *)
(***************************************************************************)
MintInfo(freezeAuthority, name, symbol, extensions) ==
    [freezeAuthority |-> freezeAuthority, name |-> name, symbol |-> symbol,
     extensions |-> extensions]

ParsedData(info) == [parsed |-> TRUE, info |-> info]
UnparsedData == [parsed |-> FALSE, info |-> MintInfo(None, Missing, Missing, << >>)]

AccountData(owner, data) == [owner |-> owner, data |-> data]

LedgerEntry(side_record, value) == [metadata |-> side_record, mint |-> value]

SideRecords ==
    {NoMetadata,
     Metadata("MetaName", "META", "UpdateAuthority"),
     Metadata("PumpName", "PUMP", PUMP_UPDATE_AUTHORITY)}

\* owners that are no token program: the system program, another program, no owner key
OtherOwners == {SYSTEM_PROGRAM, "BPFLoaderUpgradeab1e11111111111111111111111", Missing}

Accounts ==
    {AccountData(o, d) :
        o \in OtherOwners,
        d \in {UnparsedData, ParsedData(MintInfo("Authority", Missing, Missing, << >>))}}
    \cup {AccountData(TOKEN_PROGRAM, UnparsedData),
          AccountData(TOKEN_2022_PROGRAM, UnparsedData)}
    \cup {AccountData(TOKEN_PROGRAM, ParsedData(MintInfo(f, n, Missing, << >>))) :
        f \in Authorities, n \in {Missing, "InfoName"}}
    \cup {AccountData(TOKEN_2022_PROGRAM, ParsedData(MintInfo(f, Missing, Missing, e))) :
        f \in Authorities, e \in ExtensionLists}

LedgerEntries ==
    {LedgerEntry(m, v) : m \in SideRecords, v \in {<< >>} \cup {<<a>> : a \in Accounts}}

\* the addresses of a batch: a wallet, a legacy mint with a freeze authority,
\* a Token-2022 mint launched with the reserved update authority, and a
\* string that is no address (the upstream answers with an error object)
BatchLedger ==
    [SystemWallet |->
         LedgerEntry(NoMetadata, <<AccountData(SYSTEM_PROGRAM, UnparsedData)>>),
     FrozenMint |->
         LedgerEntry(Metadata("MetaName", "META", "UpdateAuthority"),
                     <<AccountData(TOKEN_PROGRAM,
                                   ParsedData(MintInfo("Authority", Missing, Missing, << >>)))>>),
     PumpMint |->
         LedgerEntry(Metadata("PumpName", "PUMP", PUMP_UPDATE_AUTHORITY),
                     <<AccountData(TOKEN_2022_PROGRAM,
                                   ParsedData(MintInfo(None, Missing, Missing,
                                       <<ExtensionEntry("permanentDelegate", Missing, Missing,
                                                        "Authority", NoFee, None)>>)))>>),
     NotAnAddress |-> LedgerEntry(NoMetadata, << >>)]

Batches == UNION {[1..n -> DOMAIN BatchLedger] : n \in 0..MaxBatch}

\* process_tokens_concurrently over every batch of at most MaxBatch addresses
Init ==
    /\ \E addresses \in Batches : BatchStart(addresses, BatchLedger)
    /\ ScorerOff
    /\ DecodeOff
    /\ ClientOff
    /\ FrontOff

Spec == Init /\ [][Next]_vars

\* one address, whatever the upstream holds for it
InitAnalyze ==
    /\ \E entry \in LedgerEntries : BatchStart(<<"Mint">>, [Mint |-> entry])
    /\ ScorerOff
    /\ DecodeOff
    /\ ClientOff
    /\ FrontOff

SpecAnalyze == InitAnalyze /\ [][Next]_vars

(***************************************************************************)
(* The risk scorer on its own: a record as the analysis builds it, any     *)
(* mitigation map, and the two things a caller does with it: project it    *)
(* with to_dict, and mark a factor's mitigation as applied.                *)
(***************************************************************************)
RiskFactors ==
    {"freeze_authority", "permanent_delegate", "transfer_hook",
     "confidential_transfers", "transfer_fees"}

MitigationRecords ==
    {[documentation |-> "", applied |-> FALSE],
     [documentation |-> "reviewed", applied |-> TRUE]}

MitigationMaps == UNION {[keys -> MitigationRecords] : keys \in SUBSET RiskFactors}

\* every record an analysis can hand to to_dict: what process_token_data
\* returns for an account, the record built without account data, and the
\* record of the except clause
AnalysedRecords ==
    {process_token_data(a, "Mint").details :
        a \in {x \in Accounts : ~process_token_data(x, "Mint").raised}}
    \cup {no_account_data(NoMetadata, "Mint"), except_handler("Mint").details}

InitScorer ==
    /\ BatchOff
    /\ DecodeOff
    /\ ClientOff
    /\ FrontOff
    /\ \E r \in AnalysedRecords, m \in MitigationMaps :
           self = [r EXCEPT !.mitigations = m]
    /\ review = "NONE"

\* result = self.to_dict()
ToDictCall ==
    /\ gathered = "off"
    /\ review' = to_dict(self).security_review
    /\ self' = to_dict_self(self)
    /\ UNCHANGED <<batch_vars, decode_vars, front_vars, client_vars>>

\* the caller records a mitigation as applied and recomputes the review
ApplyMitigation(check, documentation) ==
    /\ gathered = "off"
    /\ ~MitigationApplied(self.mitigations, check)
    /\ LET applied == [documentation |-> documentation, applied |-> TRUE]
           domain == DOMAIN self.mitigations \cup {check}
           mitigated == [self EXCEPT !.mitigations =
                            [c \in domain |-> IF c = check THEN applied ELSE self.mitigations[c]]]
       IN /\ review' = to_dict(mitigated).security_review
          /\ self' = to_dict_self(mitigated)
    /\ UNCHANGED <<batch_vars, decode_vars, front_vars, client_vars>>

NextScorer ==
    \/ ToDictCall
    \/ \E check \in RiskFactors : ApplyMitigation(check, "reviewed")

SpecScorer == InitScorer /\ [][NextScorer]_vars

(***************************************************************************)
(* The decode of get_metadata on its own: the bytes of a side-record as    *)
(* the metadata program lays them out, or any leading part of them.        *)
(***************************************************************************)
\* a length as the four little-endian bytes of the layout
LittleEndian4(n) ==
    <<n % 256, (n \div 256) % 256, (n \div 65536) % 256, (n \div 16777216) % 256>>

NameBytes == UNION {[1..n -> {0, 65, 255}] : n \in 0..MaxName}
SymbolBytes == UNION {[1..n -> {0, 66, 255}] : n \in 0..MaxSymbol}

\* discriminator, update authority, mint, name and symbol with their lengths
SideRecordBytes(update_authority, name, symbol) ==
    <<4>> \o KeyBytes(update_authority) \o KeyBytes("UpdateAuthority")
          \o LittleEndian4(Len(name)) \o name
          \o LittleEndian4(Len(symbol)) \o symbol

SideRecordBuffers ==
    {SideRecordBytes(k, n, y) : k \in DOMAIN KeyByte, n \in NameBytes, y \in SymbolBytes}

\* base64.b64decode(account_data) of what the upstream holds: a side-record
\* or a leading part of one
DecodedBuffers ==
    UNION {{SubSeq(r, 1, n) : n \in 0..Len(r)} : r \in SideRecordBuffers}

InitDecode ==
    /\ BatchOff
    /\ ScorerOff
    /\ ClientOff
    /\ FrontOff
    /\ decoded_data \in DecodedBuffers
    /\ parsed = << >>

\* lines 93-140 on decoded_data
DecodeSideRecord ==
    /\ gathered = "off"
    /\ parsed = << >>
    /\ parsed' = <<parse_metadata(decoded_data)>>
    /\ UNCHANGED <<decoded_data, batch_vars, scorer_vars, client_vars, front_vars>>

NextDecode == DecodeSideRecord

SpecDecode == InitDecode /\ [][NextDecode]_vars

(***************************************************************************)
(* One analysis request by request.  Task i runs get_token_details_async   *)
(* as above, but get_metadata, the mint fetch and verify_pump_token are    *)
(* taken one request and one response at a time; log records every sleep   *)
(* awaited and every request sent.  The upstream answers each request as   *)
(* it likes: a raise stands for a network error or a body that is not the  *)
(* JSON the code reads.                                                    *)
(***************************************************************************)
Sleep(seconds) == [event |-> "sleep", seconds |-> seconds]
Request(method, target) == [event |-> "request", method |-> method, target |-> target]

\* 2 ** retry
RECURSIVE Pow2(_)
Pow2(n) == IF n = 0 THEN 1 ELSE 2 * Pow2(n - 1)

\* lines 33-51: the address of the side-record, None when the mint address
\* is no public key
get_metadata_account(mint_address) ==
    IF mint_address = "NotAnAddress" THEN None ELSE "metadata:" \o mint_address

\* get_metadata returns to get_token_details_async (line 449)
MetadataReturn(i, value) ==
    /\ metadata' = [metadata EXCEPT ![i] = value]
    /\ pc' = [pc EXCEPT ![i] = "fetch_mint"]
    /\ at' = "enter"
    /\ UNCHANGED retry

\* lines 55-75: the base delay, the derivation of the side-record's address
\* and the request
MetadataPost(i) ==
    /\ gathered = "running"
    /\ pc[i] = "get_metadata"
    /\ at \in {"enter", "loop"}
    /\ IF get_metadata_account(TaskAddress(i)) = None
       THEN /\ log' = log \o <<Sleep(BASE_DELAY)>>
            /\ MetadataReturn(i, NoMetadata)
            /\ UNCHANGED status
       ELSE /\ log' = log \o <<Sleep(BASE_DELAY),
                               Request("getAccountInfo",
                                       get_metadata_account(TaskAddress(i)))>>
            /\ at' = "awaiting"
            /\ status' = 0
            /\ UNCHANGED <<metadata, pc, retry>>
    /\ UNCHANGED <<token_addresses, ledger, observed, classified, details, raised,
                   semaphore, results, gathered, returned, self, review,
                   decode_vars, front_vars, scan>>

\* lines 142-147: except Exception around one attempt
MetadataRaised(i) ==
    /\ status' = 0
    /\ IF retry < MAX_RETRIES - 1
       THEN /\ log' = log \o <<Sleep(RETRY_DELAY * (retry + 1))>>
            /\ retry' = retry + 1
            /\ at' = "loop"
            /\ UNCHANGED <<metadata, pc>>
       ELSE /\ MetadataReturn(i, NoMetadata)
            /\ UNCHANGED log

\* lines 76-82: response.status == 429
MetadataThrottled(i) ==
    /\ status' = 429
    /\ IF retry < MAX_RETRIES - 1
       THEN /\ log' = log \o <<Sleep(RETRY_DELAY * Pow2(retry))>>
            /\ retry' = retry + 1
            /\ at' = "loop"
            /\ UNCHANGED <<metadata, pc>>
       ELSE /\ MetadataReturn(i, NoMetadata)
            /\ UNCHANGED log

\* lines 84-140: another status, a body without a value, or the side-record
MetadataAnswered(i) ==
    /\ \/ /\ status' = 500
          /\ MetadataReturn(i, NoMetadata)
       \/ /\ status' = 200
          /\ MetadataReturn(i, NoMetadata)
       \/ /\ decoded_data /= << >>
          /\ status' = 200
          /\ MetadataReturn(i, parse_metadata(decoded_data))
    /\ UNCHANGED log

\* the response to the side-record request
MetadataResponse(i) ==
    /\ gathered = "running"
    /\ pc[i] = "get_metadata"
    /\ at = "awaiting"
    /\ \/ MetadataRaised(i)
       \/ MetadataThrottled(i)
       \/ MetadataAnswered(i)
    /\ UNCHANGED <<token_addresses, ledger, observed, classified, details, raised,
                   semaphore, results, gathered, returned, self, review,
                   decode_vars, front_vars, scan>>

\* lines 452-463: the mint request follows get_metadata at once
MintPost(i) ==
    /\ gathered = "running"
    /\ pc[i] = "fetch_mint"
    /\ at = "enter"
    /\ log' = log \o <<Request("getAccountInfo", TaskAddress(i))>>
    /\ at' = "awaiting"
    /\ status' = 0
    /\ UNCHANGED <<batch_vars, scorer_vars, decode_vars, front_vars, retry, scan>>

\* lines 463-490: the status of the response is not read; a throttled or
\* failed response carries no account data, so its body is an error object
\* or no JSON at all
MintResponse(i) ==
    /\ gathered = "running"
    /\ pc[i] = "fetch_mint"
    /\ at = "awaiting"
    /\ \/ /\ status' = 200
          /\ FetchMintResponse(i, ResponseJson(ledger[TaskAddress(i)].mint))
       \/ \E code \in {429, 500} :
              /\ status' = code
              /\ \E response \in {ResponseJson(<< >>), ResponseException} :
                     FetchMintResponse(i, response)
       \/ /\ status' = 0
          /\ FetchMintResponse(i, ResponseException)
    /\ at' = "enter"
    /\ UNCHANGED <<retry, log, scan>>

(***************************************************************************)
(* verify_pump_token request by request                                    *)
(***************************************************************************)
\* mutant: the fall-through tuple calls the token genuine
NotVerified_genuine == <<TRUE, "pump.fun", None, None>>

NotVerified == <<FALSE, None, None, None>>

\* the bodies of the Raydium mint list: the token's entry, a null entry for
\* a mint it does not list, or a failure report
RaydiumBodies ==
    {[success |-> TRUE, data |-> <<"token_info">>],
     [success |-> TRUE, data |-> <<None>>],
     [success |-> FALSE, data |-> << >>]}

\* mutant: the listing is never taken as proof
token_listed_never(raydium_data) == FALSE

\* lines 269-272: success, data, a list, and a first entry
token_listed(raydium_data) ==
    /\ raydium_data.success
    /\ raydium_data.data /= << >>
    /\ raydium_data.data[1] /= None

SignatureNames == <<"Signature1", "Signature2", "Signature3", "Signature4">>
SignatureLists ==
    {SubSeq(SignatureNames, 1, n) : n \in 0..Min(MaxSignatures, Len(SignatureNames))}

\* writable, readonly and accountKeys of a transaction, in that order
AccountKeys == <<"Account1", "Account2", "Account3", "Account4", "Account5">>
TxAccountLists ==
    {SubSeq(AccountKeys, 1, n) : n \in 0..Min(MaxAccounts, Len(AccountKeys))}
    \cup {<<RAYDIUM_AMM_PROGRAM>>}

\* the owners a getAccountInfo of a referenced account reports
AccountOwners == {PUMP_PROGRAM, RAYDIUM_AMM_PROGRAM, SYSTEM_PROGRAM}

\* mutant: the owner test of the first loop never matches
first_pass_verdict_blind(acc_owner, acc_pubkey, signature) == << >>

\* lines 386-388: << >> when the loop goes on to the next account
first_pass_verdict(acc_owner, acc_pubkey, signature) ==
    IF acc_owner = PUMP_PROGRAM
    THEN <<<<TRUE, "pump.fun", acc_pubkey, signature>>>>
    ELSE << >>

\* lines 428-433
second_pass_verdict(acc_owner, acc_pubkey, signature) ==
    IF acc_owner = PUMP_PROGRAM
    THEN <<<<TRUE, "pump.fun", acc_pubkey, signature>>>>
    ELSE IF acc_owner = RAYDIUM_AMM_PROGRAM \/ acc_pubkey = RAYDIUM_AMM_PROGRAM
    THEN <<<<TRUE, "raydium", acc_pubkey, signature>>>>
    ELSE << >>

\* for sig_info in signatures: the next iteration
NextSignature(sc) ==
    [sc EXCEPT !.sig_info = @ + 1, !.accounts = << >>, !.idx = 0, !.pass = 0]

\* continue: the next account of the loop, the second loop after the first,
\* the next signature after the second
NextAccount(sc) ==
    IF sc.idx < Len(sc.accounts) THEN [sc EXCEPT !.idx = @ + 1]
    ELSE IF sc.pass = 1 THEN [sc EXCEPT !.pass = 2, !.idx = 1]
    ELSE NextSignature(sc)

\* verify_pump_token returns its tuple
VerifierReturns(i, verified) ==
    /\ VerifyReturn(i, verified)
    /\ at' = "enter"

\* the scan goes on at sc, or returns line 444's tuple when no signature is left
VerifierContinues(i, sc) ==
    /\ scan' = sc
    /\ IF sc.sig_info > Len(sc.signatures)
       THEN VerifierReturns(i, NotVerified)
       ELSE /\ at' = IF sc.pass = 0 THEN "transaction_post" ELSE "account_post"
            /\ UNCHANGED <<batch_vars, scorer_vars, decode_vars, front_vars>>

\* lines 247-259: the update authority check, the one second sleep and the
\* request to the Raydium mint list
RaydiumGet(i) ==
    /\ gathered = "running"
    /\ pc[i] = "verify_pump_token"
    /\ at = "enter"
    /\ IF ~is_pump_authority(metadata[i])
       THEN /\ VerifierReturns(i, NotVerified)
            /\ UNCHANGED <<status, log>>
       ELSE /\ log' = log \o <<Sleep(1), Request("GET /mint/ids", TaskAddress(i))>>
            /\ at' = "raydium_wait"
            /\ status' = 0
            /\ UNCHANGED <<batch_vars, scorer_vars, decode_vars, front_vars>>
    /\ UNCHANGED <<retry, scan>>

\* lines 260-284
RaydiumResponse(i) ==
    /\ gathered = "running"
    /\ pc[i] = "verify_pump_token"
    /\ at = "raydium_wait"
    /\ \/ /\ status' \in {0, 429, 500}
          /\ VerifierReturns(i, NotVerified)
          /\ UNCHANGED scan
       \/ \E raydium_data \in RaydiumBodies :
              /\ status' = 200
              /\ scan' = [scan EXCEPT !.raydium_data = <<raydium_data>>]
              /\ IF token_listed(raydium_data)
                 THEN VerifierReturns(i, <<TRUE, "raydium", None, None>>)
                 ELSE /\ at' = "signatures_post"
                      /\ UNCHANGED <<batch_vars, scorer_vars, decode_vars, front_vars>>
    /\ UNCHANGED <<retry, log>>

\* lines 287-302
SignaturesPost(i) ==
    /\ gathered = "running"
    /\ pc[i] = "verify_pump_token"
    /\ at = "signatures_post"
    /\ log' = log \o <<Request("getSignaturesForAddress", TaskAddress(i))>>
    /\ at' = "signatures_wait"
    /\ status' = 0
    /\ UNCHANGED <<batch_vars, scorer_vars, decode_vars, front_vars, retry, scan>>

\* lines 303-312 and 438-444: the status is not read; a raise, a body
\* without "result" and an empty list all end in line 444
SignaturesResponse(i) ==
    /\ gathered = "running"
    /\ pc[i] = "verify_pump_token"
    /\ at = "signatures_wait"
    /\ \/ /\ status' \in {0, 200, 429}
          /\ VerifierReturns(i, NotVerified)
          /\ UNCHANGED scan
       \/ \E signatures \in SignatureLists :
              /\ status' = 200
              /\ VerifierContinues(i, [scan EXCEPT !.signatures = signatures,
                                                   !.sig_info = 1])
    /\ UNCHANGED <<retry, log>>

\* lines 314-327
TransactionPost(i) ==
    /\ gathered = "running"
    /\ pc[i] = "verify_pump_token"
    /\ at = "transaction_post"
    /\ log' = log \o <<Request("getTransaction", scan.signatures[scan.sig_info])>>
    /\ at' = "transaction_wait"
    /\ status' = 0
    /\ UNCHANGED <<batch_vars, scorer_vars, decode_vars, front_vars, retry, scan>>

\* lines 328-336: a raise leaves the scan (line 438), a body without result
\* skips the signature, a transaction hands over its accounts
TransactionResponse(i) ==
    /\ gathered = "running"
    /\ pc[i] = "verify_pump_token"
    /\ at = "transaction_wait"
    /\ \/ /\ status' = 0
          /\ VerifierReturns(i, NotVerified)
          /\ UNCHANGED scan
       \/ /\ status' \in {200, 429}
          /\ VerifierContinues(i, NextSignature(scan))
       \/ \E accounts \in TxAccountLists :
              /\ status' = 200
              /\ IF accounts = << >>
                 THEN VerifierContinues(i, NextSignature(scan))
                 ELSE VerifierContinues(i, [scan EXCEPT !.accounts = accounts,
                                                        !.idx = 1, !.pass = 1])
    /\ UNCHANGED <<retry, log>>

\* lines 348-366 (first loop, after a one second sleep) and 408-420 (second
\* loop, at once): the owner of the account at idx is asked for
AccountPost(i) ==
    /\ gathered = "running"
    /\ pc[i] = "verify_pump_token"
    /\ at = "account_post"
    /\ log' = log \o (IF scan.pass = 1 THEN <<Sleep(1)>> ELSE << >>)
                  \o <<Request("getAccountInfo", scan.accounts[scan.idx])>>
    /\ scan' = [scan EXCEPT !.acc_owner = << >>,
                             !.inspected =
                                 Append(@, <<scan.sig_info, scan.pass, scan.idx>>)]
    /\ at' = "account_wait"
    /\ status' = 0
    /\ UNCHANGED <<batch_vars, scorer_vars, decode_vars, front_vars, retry>>

\* lines 367-392 and 421-436: no owner learnt (a raise, no result, no value)
\* or an owner, tested as the loop tests it
AccountResponse(i) ==
    /\ gathered = "running"
    /\ pc[i] = "verify_pump_token"
    /\ at = "account_wait"
    /\ \/ /\ status' \in {0, 200, 429}
          /\ VerifierContinues(i, NextAccount(scan))
       \/ \E acc_owner \in AccountOwners :
              LET acc_pubkey == scan.accounts[scan.idx]
                  signature == scan.signatures[scan.sig_info]
                  verdict == IF scan.pass = 1
                             THEN first_pass_verdict(acc_owner, acc_pubkey, signature)
                             ELSE second_pass_verdict(acc_owner, acc_pubkey, signature)
                  seen == [scan EXCEPT !.acc_owner = <<acc_owner>>]
              IN /\ status' = 200
                 /\ IF verdict /= << >>
                    THEN /\ scan' = seen
                         /\ VerifierReturns(i, verdict[1])
                    ELSE VerifierContinues(i, NextAccount(seen))
    /\ UNCHANGED <<retry, log>>

\* mutant: the analysis starts with the mint fetch
ClientAdmit_classifier_first(i) ==
    /\ gathered = "running"
    /\ pc[i] = "created"
    /\ ~locked(semaphore)
    /\ \A j \in Tasks : j < i => pc[j] /= "created"
    /\ semaphore' = semaphore - 1
    /\ pc' = [pc EXCEPT ![i] = "fetch_mint"]
    /\ at' = "enter"
    /\ retry' = 0
    /\ status' = 0
    /\ log' = << >>
    /\ scan' = NoScan
    /\ UNCHANGED <<token_addresses, ledger, metadata, observed, classified, details,
                   raised, results, gathered, returned, self, review, decode_vars, front_vars>>

\* lines 608-611, 55 and 251: an analysis enters the block with fresh locals;
\* with one permit, at, retry, status, log and scan are those of the one
\* analysis inside the block
ClientAdmit(i) ==
    /\ AdmitTask(i)
    /\ at' = "enter"
    /\ retry' = 0
    /\ status' = 0
    /\ log' = << >>
    /\ scan' = NoScan

NextClient ==
    \/ \E i \in Tasks : ClientAdmit(i)
    \/ \E i \in Tasks : MetadataPost(i)
    \/ \E i \in Tasks : MetadataResponse(i)
    \/ \E i \in Tasks : MintPost(i)
    \/ \E i \in Tasks : MintResponse(i)
    \/ \E i \in Tasks : RaydiumGet(i)
    \/ \E i \in Tasks : RaydiumResponse(i)
    \/ \E i \in Tasks : SignaturesPost(i)
    \/ \E i \in Tasks : SignaturesResponse(i)
    \/ \E i \in Tasks : TransactionPost(i)
    \/ \E i \in Tasks : TransactionResponse(i)
    \/ \E i \in Tasks : AccountPost(i)
    \/ \E i \in Tasks : AccountResponse(i)
    \/ \E i \in Tasks : ReturnResult(i)
    \/ GatherReturn

\* what the upstream holds for the address analysed: the bytes of its
\* side-record (none: << >>) and result.value of its getAccountInfo
Held(address, side_record, value) ==
    [address |-> address, side_record |-> side_record, value |-> value]

\* a string that is no public key; a wallet; an address nothing is stored
\* at; a legacy mint under an ordinary update authority; a Token 2022 mint
\* under the reserved one; and an account the node cannot parse, whose
\* side-record is cut after its update authority
ClientLedger ==
    {Held("NotAnAddress", << >>, << >>),
     Held("Mint", << >>, BatchLedger.SystemWallet.mint),
     Held("Mint", << >>, << >>),
     Held("Mint", SideRecordBytes("UpdateAuthority", <<65>>, <<66>>),
          BatchLedger.FrozenMint.mint),
     Held("Mint", SideRecordBytes(PUMP_UPDATE_AUTHORITY, <<65>>, <<66>>),
          BatchLedger.PumpMint.mint),
     Held("Mint", SubSeq(SideRecordBytes(PUMP_UPDATE_AUTHORITY, <<65>>, <<66>>), 1, 33),
          <<AccountData(TOKEN_2022_PROGRAM, UnparsedData)>>)}

\* the input lists of several addresses: a string that is no public key and
\* a wallet, in every order, repeated or not
ClientBatches ==
    UNION {[1..n -> {"NotAnAddress", "Mint"}] : n \in 2..MaxBatch}

InitClient ==
    /\ ScorerOff
    /\ ClientOff
    /\ FrontOff
    /\ parsed = << >>
    /\ \/ \E held \in ClientLedger :
              /\ decoded_data = held.side_record
              /\ BatchStart(<<held.address>>,
                            [a \in {held.address} |->
                                LedgerEntry(IF held.side_record = << >> THEN NoMetadata
                                            ELSE parse_metadata(held.side_record),
                                            held.value)])
       \/ \E batch \in ClientBatches :
              /\ decoded_data = << >>
              /\ BatchStart(batch,
                            [a \in {"NotAnAddress", "Mint"} |->
                                LedgerEntry(NoMetadata,
                                            IF a = "Mint" THEN BatchLedger.SystemWallet.mint
                                            ELSE << >>)])

SpecClient == InitClient /\ [][NextClient]_vars

\* the event loop runs every callback that is ready, and every awaited sleep
\* and every awaited call comes back with a response or with a raise: a step
\* that can be taken is taken
SpecClientFair == SpecClient /\ WF_vars(NextClient)

(***************************************************************************)
(* The command line front door: spl_token_analysis_CLI.py                  *)
(***************************************************************************)

\* dict.get(key): None when the key is missing
DictGet(dict, key) == IF key \in DOMAIN dict THEN dict[key] ELSE None

\* "Token 2022" in owner_program: the text is "<address> (<label>)", and of
\* the texts the analysis writes only the label of TOKEN_2022_PROGRAM holds
\* these words
contains_Token_2022(owner_program) ==
    owner_program.note = OWNER_LABELS[TOKEN_2022_PROGRAM]

\* mitigations.get(check, {}).get('applied', False)
applied_in(mitigations, check) ==
    IF check \in DOMAIN mitigations THEN mitigations[check].applied ELSE FALSE

\* lines 36-46 and 115-125: the entries of the file laid over the result's
cli_mitigations(result_dict, token_mitigations) ==
    [check \in DOMAIN result_dict.mitigations \cup DOMAIN token_mitigations |->
        IF check \in DOMAIN token_mitigations
        THEN [documentation |-> token_mitigations[check].documentation,
              applied |-> token_mitigations[check].applied]
        ELSE result_dict.mitigations[check]]

\* lines 55 and 134: the keys of result_dict the loop reads
cli_features ==
    {"permanent_delegate", "transfer_hook", "confidential_transfers", "transaction_fees"}

\* value not in [None, 0, 'None']; to_dict writes the fee under
\* transaction_fees and the authorities under the other keys
cli_present(result_dict, feature) ==
    IF feature \notin DOMAIN result_dict THEN FALSE
    ELSE IF feature = "transaction_fees" THEN result_dict[feature] \notin {NoFee, 0}
    ELSE result_dict[feature] \notin {None, "None"}

\* lines 49-60 and 128-139
cli_has_unmitigated_risks(result_dict) ==
    \/ /\ Truthy(DictGet(result_dict, "freeze_authority"))
       /\ ~applied_in(result_dict.mitigations, "freeze_authority")
    \/ /\ contains_Token_2022(result_dict.owner_program)
       /\ \E feature \in cli_features :
              /\ cli_present(result_dict, feature)
              /\ ~applied_in(result_dict.mitigations, feature)

\* lines 36-62 and 115-141: the result with the mitigations of the file, when
\* the file has an entry for the address
cli_recompute(result_dict, mitigations, token_address) ==
    IF token_address \in DOMAIN mitigations
    THEN LET merged == [result_dict EXCEPT
                           !.mitigations = cli_mitigations(result_dict,
                                                           mitigations[token_address])]
         IN [merged EXCEPT !.security_review =
                IF cli_has_unmitigated_risks(merged) THEN "FAILED" ELSE "PASSED"]
    ELSE result_dict

\* the mitigation files: no entry for the address, or a map for it
MitigationFiles ==
    {<< >>} \cup {[a \in {"Mint"} |-> m] : m \in MitigationMaps}

\* lines 11-62: generate_single_report up to the report
GenerateSingleReport(mitigations) ==
    /\ gathered = "off"
    /\ report = << >>
    /\ isinstance_TokenDetails(self)
    /\ report' = <<cli_recompute(to_dict(self), mitigations, self.address)>>
    /\ review' = to_dict(self).security_review
    /\ self' = to_dict_self(self)
    /\ UNCHANGED <<batch_vars, decode_vars, client_vars, session, notice, clicks>>

\* lines 80-141: generate_batch_reports for one result of
\* process_tokens_concurrently
GenerateBatchReports(mitigations) ==
    /\ gathered = "off"
    /\ report = << >>
    /\ LET result == process_single_token(self.address, self)
       IN /\ result.status = "success"
          /\ report' = <<cli_recompute(result, mitigations, result.address)>>
    /\ review' = to_dict(self).security_review
    /\ self' = to_dict_self(self)
    /\ UNCHANGED <<batch_vars, decode_vars, client_vars, session, notice, clicks>>

InitReport ==
    /\ BatchOff
    /\ DecodeOff
    /\ ClientOff
    /\ FrontOff
    /\ self \in AnalysedRecords
    /\ review = "NONE"

NextReport ==
    \/ \E mitigations \in MitigationFiles : GenerateSingleReport(mitigations)
    \/ \E mitigations \in MitigationFiles : GenerateBatchReports(mitigations)

SpecReport == InitReport /\ [][NextReport]_vars

(***************************************************************************)
(* The dashboard: app.py.  Every interaction runs the script from its top: *)
(* the single token tab first, the batch tab after it.                     *)
(***************************************************************************)

\* str.strip(): the text without its leading and trailing whitespace
whitespace == {" ", "\t", "\n"}

RECURSIVE lstrip(_)
lstrip(text) ==
    IF text /= << >> /\ Head(text) \in whitespace THEN lstrip(Tail(text)) ELSE text

RECURSIVE rstrip(_)
rstrip(text) ==
    IF text /= << >> /\ text[Len(text)] \in whitespace
    THEN rstrip(SubSeq(text, 1, Len(text) - 1)) ELSE text

strip(text) == rstrip(lstrip(text))

\* mutant: only the empty text counts as blank
blank_when_empty(documentation) == documentation = << >>

\* lines 383 and 627: not documentation.strip()
blank(documentation) == strip(documentation) = << >>

\* what a reviewer types into a documentation field, character by character
Documentations == {<< >>, <<" ">>, <<"o", "k">>}

\* lines 308-318 and 541-551: one test of the failing checks
fails(result, check) ==
    IF check = "freeze_authority" THEN Truthy(DictGet(result, "freeze_authority"))
    ELSE /\ contains_Token_2022(result.owner_program)
         /\ IF check = "transfer_fees"
            THEN /\ "transaction_fees" \in DOMAIN result
                 /\ result.transaction_fees \notin {NoFee, 0}
            ELSE Truthy(DictGet(result, check))

failing_checks(result) == {check \in RiskFactors : fails(result, check)}

\* lines 267-343: with a result in the session, the single token tab reads
\* the undefined name result (lines 313-317) for a Token 2022 record, and
\* st.session_state.mitigations[check], a key nothing ever stores, for a
\* failing check: the script run ends there with an exception
single_tab_raises(analysis_results) ==
    /\ analysis_results /= << >>
    /\ \/ contains_Token_2022(analysis_results[1].owner_program)
       \/ Truthy(analysis_results[1].freeze_authority)

\* lines 556-562: the entry a failing check gets when it has none
NewMitigation == [documentation |-> << >>, applied |-> FALSE]

\* lines 517-562: the batch tab with results to show gives every index and
\* every failing check of its result an entry, unless it has one
batch_tab(state) ==
    IF state.batch_results = << >> THEN state
    ELSE [state EXCEPT !.batch_mitigations =
             [i \in DOMAIN state.batch_mitigations \cup DOMAIN state.batch_results |->
                 LET old == IF i \in DOMAIN state.batch_mitigations
                            THEN state.batch_mitigations[i] ELSE << >>
                     failing == IF i \in DOMAIN state.batch_results
                                THEN failing_checks(state.batch_results[i]) ELSE {}
                 IN [check \in DOMAIN old \cup failing |->
                        IF check \in DOMAIN old THEN old[check] ELSE NewMitigation]]]

\* the script from line 267 to its end
script_run(state) ==
    IF single_tab_raises(state.analysis_results) THEN state ELSE batch_tab(state)

\* what the upstream holds for the addresses a reviewer works on: a wallet,
\* a legacy mint with a freeze authority, and a Token 2022 mint with a
\* freeze authority and a permanent delegate
DashboardLedger ==
    [SystemWallet |-> BatchLedger.SystemWallet,
     FrozenMint |-> BatchLedger.FrozenMint,
     DelegatedMint |->
         LedgerEntry(NoMetadata,
                     <<AccountData(TOKEN_2022_PROGRAM,
                                   ParsedData(MintInfo("Authority", Missing, Missing,
                                       <<ExtensionEntry("permanentDelegate", Missing, Missing,
                                                        "Authority", NoFee, None)>>)))>>)]

\* get_token_details_async for an address of the ledger
analysis_of(token_address) ==
    fetch_and_classify(ResponseJson(DashboardLedger[token_address].mint),
                       DashboardLedger[token_address].metadata, token_address).details

\* the files a reviewer uploads: lists of mints that need a review
Uploads == UNION {[1..n -> {"FrozenMint", "DelegatedMint"}] : n \in 1..MaxBatch}

\* a script run: the interaction that started it, the <<index, check>> of the
\* widget used, whether it ended with an exception, and the message shown
Notice(run, target, exception, shown) ==
    [run |-> run, target |-> target, raised |-> exception, shown |-> shown]

\* lines 201-262: Analyze Token
AnalyzeToken(token_address) ==
    /\ gathered = "off"
    /\ clicks < MaxClicks
    /\ clicks' = clicks + 1
    /\ LET result == analysis_of(token_address)
           state == [session EXCEPT !.analysis_results = <<to_dict(result)>>]
       IN /\ isinstance_TokenDetails(result)
          /\ session' = script_run(state)
          /\ notice' = Notice("analyze", << >>, single_tab_raises(state.analysis_results), "")
    /\ UNCHANGED <<batch_vars, scorer_vars, decode_vars, client_vars, report>>

\* lines 488-514: Process Batch; the results replace those of the batch
\* before, the mitigations of the session stay
ProcessBatch(addresses) ==
    /\ gathered = "off"
    /\ clicks < MaxClicks
    /\ ~single_tab_raises(session.analysis_results)
    /\ clicks' = clicks + 1
    /\ LET processed == [i \in DOMAIN addresses |->
                            process_single_token(addresses[i], analysis_of(addresses[i]))]
       IN session' = script_run([session EXCEPT !.batch_results = processed])
    /\ notice' = Notice("process", << >>, FALSE, "Successfully processed")
    /\ UNCHANGED <<batch_vars, scorer_vars, decode_vars, client_vars, report>>

\* the Apply Mitigation button of check under result i is on the page
shown_for(i, check) ==
    /\ ~single_tab_raises(session.analysis_results)
    /\ i \in DOMAIN session.batch_results
    /\ check \in failing_checks(session.batch_results[i])

\* lines 584-606: the reviewer changes the documentation field; the entry
\* stored in the result at Apply (line 635) is the same dict
EditDocumentation(i, check, documentation) ==
    /\ gathered = "off"
    /\ clicks < MaxClicks
    /\ shown_for(i, check)
    /\ session.batch_mitigations[i][check].documentation /= documentation
    /\ clicks' = clicks + 1
    /\ LET result == session.batch_results[i]
           entry == [session.batch_mitigations[i][check] EXCEPT
                        !.documentation = documentation]
       IN session' = [session EXCEPT
              !.batch_mitigations[i][check] = entry,
              !.batch_results[i].mitigations =
                  IF check \in DOMAIN result.mitigations
                  THEN [result.mitigations EXCEPT ![check] = entry]
                  ELSE result.mitigations]
    /\ notice' = Notice("edit", <<i, check>>, FALSE, "")
    /\ UNCHANGED <<batch_vars, scorer_vars, decode_vars, client_vars, report>>

\* lines 624-646: Apply Mitigation under result i of the batch tab
BatchApplyMitigation(i, check) ==
    /\ gathered = "off"
    /\ clicks < MaxClicks
    /\ shown_for(i, check)
    /\ ~session.batch_mitigations[i][check].applied
    /\ clicks' = clicks + 1
    /\ IF blank(session.batch_mitigations[i][check].documentation)
       THEN /\ notice' = Notice("apply", <<i, check>>, FALSE,
                                "Please provide mitigation documentation before applying.")
            /\ UNCHANGED session
       ELSE LET result == session.batch_results[i]
                entry == [session.batch_mitigations[i][check] EXCEPT !.applied = TRUE]
                mitigations == [session.batch_mitigations EXCEPT ![i][check] = entry]
                unmitigated ==
                    \E c \in failing_checks(result) : ~mitigations[i][c].applied
            IN /\ session' = [session EXCEPT
                      !.batch_mitigations = mitigations,
                      !.batch_results[i] =
                          [result EXCEPT
                              !.mitigations =
                                  [c \in DOMAIN result.mitigations \cup {check} |->
                                      IF c = check THEN entry ELSE result.mitigations[c]],
                              !.security_review =
                                  IF unmitigated THEN "FAILED" ELSE "PASSED"]]
               /\ notice' = Notice("apply", <<i, check>>, FALSE, "Mitigation applied successfully!")
    /\ UNCHANGED <<batch_vars, scorer_vars, decode_vars, client_vars, report>>

InitDashboard ==
    /\ BatchOff
    /\ ScorerOff
    /\ DecodeOff
    /\ ClientOff
    /\ FrontOff

NextDashboard ==
    \/ \E token_address \in DOMAIN DashboardLedger : AnalyzeToken(token_address)
    \/ \E addresses \in Uploads : ProcessBatch(addresses)
    \/ \E i \in 1..MaxBatch, check \in RiskFactors, documentation \in Documentations :
           EditDocumentation(i, check, documentation)
    \/ \E i \in 1..MaxBatch, check \in RiskFactors : BatchApplyMitigation(i, check)

SpecDashboard == InitDashboard /\ [][NextDashboard]_vars

(***************************************************************************)
(* Claims about the metadata decode (checked under SpecDecode)             *)
(***************************************************************************)
\* the fixed-width prefix: discriminator, update authority, mint, name length
PrefixLength == 1 + 32 + 32 + 4

\* the name length the buffer declares, when the prefix is all there
DeclaredNameLength(bytes) == int_from_bytes(SubSeq(bytes, 66, 69))

\* the buffer cannot hold the fields its layout declares
CannotHoldLayout(bytes) ==
    \/ Len(bytes) < PrefixLength
    \/ PrefixLength + DeclaredNameLength(bytes) > Len(bytes)

\* C14: a buffer shorter than the fixed-width prefix, or whose declared name
\* length runs past its end, decodes to no metadata: no partial record of
\* name, symbol and update authority is returned
C14_ShortBufferNoMetadata ==
    (parsed /= << >> /\ CannotHoldLayout(decoded_data)) => parsed[1] = NoMetadata

(***************************************************************************)
(* Claims about the risk scorer (checked under SpecScorer)                 *)
(***************************************************************************)
IsExtended(r) == r.owner_program.id = TOKEN_2022_PROGRAM

\* the factors that apply to a record's program variant
ApplicableFactors(r) ==
    {"freeze_authority"} \cup
    (IF IsExtended(r)
     THEN {"permanent_delegate", "transfer_hook", "confidential_transfers", "transfer_fees"}
     ELSE {})

\* the underlying value of a factor is present (non-zero for the fee)
FactorPresent(r, factor) ==
    CASE factor = "freeze_authority" -> r.freeze_authority /= None
      [] factor = "permanent_delegate" -> r.extensions[1].permanent_delegate /= None
      [] factor = "transfer_hook" -> r.extensions[1].transfer_hook_authority /= None
      [] factor = "confidential_transfers" ->
             r.extensions[1].confidential_transfers_authority /= None
      [] factor = "transfer_fees" ->
             r.extensions[1].transfer_fee /= NoFee /\ r.extensions[1].transfer_fee /= 0

FactorOpen(r, factor) ==
    /\ FactorPresent(r, factor)
    /\ ~(factor \in DOMAIN r.mitigations /\ r.mitigations[factor].applied = TRUE)

\* C4: the review to_dict yields is FAILED exactly when an applicable factor is
\* open (value present, mitigation not applied), and PASSED otherwise.
C4_ReviewFailedIffOpenFactor ==
    review /= "NONE" =>
        /\ review \in {"PASSED", "FAILED"}
        /\ review = "FAILED" <=> \E f \in ApplicableFactors(self) : FactorOpen(self, f)

\* an extended record whose only present factor is a non-zero fee, mitigated
C4_Witness ==
    /\ review = "PASSED"
    /\ IsExtended(self)
    /\ self.extensions[1].transfer_fee > 0
    /\ self.freeze_authority /= None
    /\ \A f \in {"freeze_authority", "transfer_fees"} :
           f \in DOMAIN self.mitigations /\ self.mitigations[f].applied

\* C5: no step (a to_dict call, or a mitigation marked applied followed by the
\* recomputation) turns a PASSED review into anything else.
C5_MitigationMonotone == [][review = "PASSED" => review' = "PASSED"]_vars

\* a record with a freeze authority whose mitigation was applied: now PASSED
C5_Witness ==
    /\ review = "PASSED"
    /\ self.freeze_authority /= None
    /\ MitigationApplied(self.mitigations, "freeze_authority")

C1_SameLengthSameOrder ==
    gathered = "returned" =>
        /\ Len(returned) = Len(token_addresses)
        /\ \A i \in 1..Len(token_addresses) :
               /\ returned[i].address = token_addresses[i]
               /\ details[i].address = token_addresses[i]
               /\ returned[i] = results[i]
               /\ returned[i].name = details[i].name

\* a returned batch of two equal addresses whose analyses ended differently
C1_Witness ==
    /\ gathered = "returned"
    /\ Len(token_addresses) = 2
    /\ token_addresses[1] = token_addresses[2]
    /\ raised[1] /\ ~raised[2]
    /\ returned[1].name = "ERROR" /\ returned[2].name /= "ERROR"

\* what a single analysis of an address yields from the responses it received
AnalysisAlone(token_address, side_record, seen) ==
    LET outcome == fetch_and_classify(seen.response[1], side_record, token_address)
        record == IF outcome.raised THEN except_handler(token_address).details
                  ELSE IF seen.verified /= << >>
                  THEN apply_verification(outcome.details, seen.verified[1])
                  ELSE outcome.details
    IN process_single_token(token_address, record)

\* C2: a failure in one analysis never aborts the batch, and every finished
\* entry is what the analysis of its own address alone yields from the
\* responses that address received, whatever happened to the other addresses.
C2_FailureIsolated ==
    /\ gathered /= "aborted"
    /\ \A i \in Tasks : pc[i] /= "failed"
    /\ \A i \in Tasks :
           pc[i] = "done" =>
               results[i] = AnalysisAlone(token_addresses[i], metadata[i], observed[i])
    /\ gathered = "returned" => \A i \in Tasks : returned[i] = results[i]

\* the first analysis failed, the second went through and the batch returned
C2_Witness ==
    /\ gathered = "returned"
    /\ Len(token_addresses) = 2
    /\ raised[1] /\ ~raised[2]
    /\ returned[2].name = "MetaName"
    /\ returned[2].security_review = "FAILED"

\* C3: the entry of an analysis that failed is tagged status=error with the
\* address and the failure message; status=success only without a failure.
C3_FailureTaggedError ==
    \A i \in Tasks :
        pc[i] = "done" =>
            /\ raised[i] =>
                   /\ results[i].status = "error"
                   /\ results[i].address = token_addresses[i]
                   /\ "error" \in DOMAIN results[i]
            /\ results[i].status = "success" => ~raised[i]

(***************************************************************************)
(* Claims about one analysis (checked under SpecAnalyze)                   *)
(***************************************************************************)
\* C7: the security_review exported by to_dict for an analysed record (its
\* mitigation map is empty) is the one the classifier derived, NOT_A_TOKEN
\* included, and lies in {PASSED, FAILED, NOT_A_TOKEN}.
C7_ExportKeepsClassifierReview ==
    \A i \in Tasks :
        (pc[i] = "done" /\ classified[i] /= << >> /\ ~classified[i][1].raised) =>
            /\ details[i].mitigations = NoMitigations
            /\ results[i].security_review = classified[i][1].details.security_review
            /\ results[i].security_review \in {"PASSED", "FAILED", "NOT_A_TOKEN"}

\* the account the mint fetch returned to task i
FetchedAccount(i) == observed[i].response[1].value[1]
HasFetchedAccount(i) ==
    /\ observed[i].response /= << >>
    /\ observed[i].response[1].kind = "json"
    /\ observed[i].response[1].value /= << >>

\* C8: an account owned by the system program is classified NOT_A_TOKEN with
\* name and symbol N/A, no freeze authority and no extensions; an account of
\* any other non-token program is NOT_A_TOKEN with the owner annotated
\* "(Not a token program)"; both whatever the payload is, parsed or not.
C8_DecisionTableNonTokens ==
    \A i \in Tasks :
        (HasFetchedAccount(i)
         /\ FetchedAccount(i).owner \notin {TOKEN_PROGRAM, TOKEN_2022_PROGRAM}) =>
            /\ ~classified[i][1].raised
            /\ ~raised[i]
            /\ LET record == classified[i][1].details
               IN /\ record.security_review = "NOT_A_TOKEN"
                  /\ record.name = "N/A" /\ record.symbol = "N/A"
                  /\ record.freeze_authority = None
                  /\ record.extensions = NoExt
                  /\ record.address = token_addresses[i]
                  /\ IF FetchedAccount(i).owner = SYSTEM_PROGRAM
                     THEN record.owner_program = OwnerText("System Program", None)
                     ELSE /\ record.owner_program.note = "Not a token program"
                          /\ record.owner_program.id =
                                 GetOr(FetchedAccount(i).owner, "N/A")

\* an account of another program, with a payload the node could not parse,
\* was classified and the analysis returned
C8_Witness ==
    \E i \in Tasks :
        /\ HasFetchedAccount(i)
        /\ FetchedAccount(i).owner \notin {SYSTEM_PROGRAM, TOKEN_PROGRAM, TOKEN_2022_PROGRAM}
        /\ ~FetchedAccount(i).data.parsed
        /\ classified[i][1].details.security_review = "NOT_A_TOKEN"
        /\ pc[i] = "done"

\* C9: a record returned by the analysis with the legacy Token Program as its
\* owner is PASSED without a freeze authority and FAILED with an unmitigated one.
C9_LegacyReview ==
    \A i \in Tasks :
        (pc[i] \in {"to_dict", "done"} /\ details[i].owner_program.id = TOKEN_PROGRAM) =>
            /\ details[i].freeze_authority = None => details[i].security_review = "PASSED"
            /\ (details[i].freeze_authority /= None
                /\ ~MitigationApplied(details[i].mitigations, "freeze_authority"))
                   => details[i].security_review = "FAILED"

\* C10: for a Token-2022 mint the parser's review is FAILED exactly when the
\* freeze authority, the permanent delegate, the hook authority or the
\* confidential-transfer authority is present or the fee is neither absent
\* nor 0, and PASSED otherwise.
C10_ExtendedUnmitigatedReview ==
    \A i \in Tasks :
        (/\ HasFetchedAccount(i)
         /\ FetchedAccount(i).owner = TOKEN_2022_PROGRAM
         /\ ~classified[i][1].raised) =>
            LET record == classified[i][1].details
                block == record.extensions[1]
                risky == \/ record.freeze_authority /= None
                         \/ block.permanent_delegate /= None
                         \/ block.transfer_hook_authority /= None
                         \/ block.confidential_transfers_authority /= None
                         \/ ~(block.transfer_fee = NoFee \/ block.transfer_fee = 0)
            IN /\ record.extensions /= NoExt
               /\ record.freeze_authority = FetchedAccount(i).data.info.freezeAuthority
               /\ record.security_review = (IF risky THEN "FAILED" ELSE "PASSED")

\* a Token-2022 mint whose fee was reported and is 0, nothing else present: PASSED
C10_Witness ==
    \E i \in Tasks :
        /\ HasFetchedAccount(i)
        /\ FetchedAccount(i).owner = TOKEN_2022_PROGRAM
        /\ ~classified[i][1].raised
        /\ FetchedAccount(i).data.info.extensions /= << >>
        /\ classified[i][1].details.extensions[1].transfer_fee = 0
        /\ classified[i][1].details.security_review = "PASSED"
        /\ pc[i] = "done"

\* the tasks whose get_token_details_async has returned its record
Analysed == {i \in Tasks : pc[i] \in {"to_dict", "done"}}

\* C11: every record an analysis returns, on whichever path (system account,
\* unrecognized program, legacy, extended, no account data, caught failure),
\* carries an extensions block exactly when its owner program is the
\* Token 2022 program
C11_ExtensionsIffExtended ==
    \A i \in Analysed :
        (details[i].extensions /= NoExt)
            <=> (details[i].owner_program.id = TOKEN_2022_PROGRAM)

\* an extended mint that lists no extension was analysed and carries a block
C11_Witness ==
    \E i \in Analysed :
        /\ pc[i] = "done"
        /\ details[i].owner_program.id = TOKEN_2022_PROGRAM
        /\ details[i].extensions = <<Token2022Extensions>>
        /\ observed[i].response[1].value[1].data.info.extensions = << >>

\* the mint fetch of task i failed: the request raised, or the body it
\* returned was not the JSON the code reads
FetchFailed(i) == observed[i].response = <<ResponseException>>

\* C12: when the fetch of the mint account fails, the analysis reports the
\* failure to its caller and hands back no TokenDetails record in its place
C12_FetchFailureReported ==
    \A i \in Tasks :
        FetchFailed(i) => /\ pc[i] = "failed"
                          /\ ~isinstance_TokenDetails(details[i])

\* the upstream answered the mint fetch of task i without account data
NoValue(i) == observed[i].response = <<ResponseJson(<< >>)>>

\* C13: when the upstream has no value for the mint account the analysis
\* returns a record; the record is NOT_A_TOKEN exactly when get_metadata
\* resolved nothing, and FAILED otherwise
C13_NoValueRecord ==
    \A i \in Analysed :
        NoValue(i) =>
            /\ isinstance_TokenDetails(details[i])
            /\ (details[i].security_review = "NOT_A_TOKEN") <=> (metadata[i] = NoMetadata)
            /\ metadata[i] /= NoMetadata => details[i].security_review = "FAILED"

(***************************************************************************)
(* Claims about the requests of one analysis (checked under SpecClient)    *)
(***************************************************************************)
Requests == {p \in DOMAIN log : log[p].event = "request"}
LastRequest == log[CHOOSE p \in Requests : \A q \in Requests : q <= p]

\* how often the request sent last has been sent
Attempts == Cardinality({p \in Requests : log[p] = LastRequest})

\* the call whose response came last is over and has failed
EndedAsFailure ==
    \A i \in Tasks :
        \/ raised[i]
        \/ pc[i] = "failed"
        \/ /\ LastRequest.target = get_metadata_account(TaskAddress(i))
           /\ pc[i] = "fetch_mint"
           /\ metadata[i] = NoMetadata
        \/ /\ LastRequest.method \notin {"getAccountInfo"}
           /\ observed[i].verified = <<NotVerified>>

\* C15: a request answered with status 429 is retried: after the throttled
\* attempt number k < MAX_RETRIES - 1 the backoff RETRY_DELAY * 2^k has been
\* awaited and the call is still open, no request is sent more than
\* MAX_RETRIES times, and after the last throttled attempt the call has
\* ended as a failure; for the metadata fetch, the mint fetch and the
\* verifier's requests alike
C15_ThrottledRetried ==
    /\ Requests /= {} => Attempts <= MAX_RETRIES
    /\ status = 429 =>
          IF Attempts < MAX_RETRIES
          THEN /\ log[Len(log)] = Sleep(RETRY_DELAY * Pow2(Attempts - 1))
               /\ at = "loop"
          ELSE EndedAsFailure

\* C16: every request to the upstream is preceded by a pacing delay: the
\* event before it in the log is a sleep, never another request
C16_EveryRequestPaced ==
    \A p \in Requests : p > 1 /\ log[p - 1].event = "sleep"

\* the requests verify_pump_token sends
VerifierRequests ==
    {p \in Requests :
        \A i \in Tasks :
            /\ log[p].target /= get_metadata_account(TaskAddress(i))
            /\ ~(log[p].method = "getAccountInfo" /\ log[p].target = TaskAddress(i))}

\* the transaction inspection's requests
InspectionRequests ==
    {p \in VerifierRequests : log[p].method /= "GET /mint/ids"}

Unverified(record) ==
    /\ record.is_genuine_pump_fun_token = FALSE
    /\ record.token_graduated_to_raydium = FALSE
    /\ record.interacted_with = None
    /\ record.interacting_account = None
    /\ record.interaction_signature = None

\* C18: for a mint whose resolved update authority is missing or is not the
\* reserved one, no verifier request is ever sent and the record returned
\* keeps genuine = false, graduated = false and no interaction
C18_NoVerifierWithoutReservedAuthority ==
    \A i \in Tasks :
        (\/ metadata[i] = NoMetadata
         \/ metadata[i][1].update_authority /= PUMP_UPDATE_AUTHORITY)
        => /\ VerifierRequests = {}
           /\ i \in Analysed => Unverified(details[i])

\* a mint under an ordinary update authority was analysed to the end
C18_Witness ==
    \E i \in Tasks :
        /\ pc[i] = "done"
        /\ metadata[i] /= NoMetadata
        /\ metadata[i][1].update_authority = "UpdateAuthority"
        /\ ~raised[i]
        /\ Unverified(details[i])
        /\ Cardinality(Requests) = 2

\* the Raydium mint list answered with the token's entry
ListedAsFound ==
    scan.raydium_data = <<[success |-> TRUE, data |-> <<"token_info">>]>>

\* C19: under the reserved update authority, when the listing service
\* reports the mint as found, the verifier returns (True, "raydium", None,
\* None) and sends no signature, transaction or account request
C19_ListingHitSkipsInspection ==
    ListedAsFound =>
        \A i \in Tasks :
            /\ pc[i] \in {"to_dict", "done"}
            /\ observed[i].verified = <<<<TRUE, "raydium", None, None>>>>
            /\ InspectionRequests = {}

\* the listing service reported the mint and the analysis went to its end
C19_Witness ==
    /\ ListedAsFound
    /\ \E i \in Tasks :
           /\ pc[i] = "done"
           /\ metadata[i][1].update_authority = PUMP_UPDATE_AUTHORITY
           /\ details[i].token_graduated_to_raydium
           /\ Cardinality(VerifierRequests) = 1

\* C20: the accounts are asked about one at a time in listed order; the
\* step that learns an owner equal to the pump program returns (True,
\* "pump.fun", that account, that signature); and once the verifier has
\* returned the analysis sends no request any more
C20_SequentialShortCircuit ==
    [][\A i \in Tasks :
          /\ (at = "account_wait" /\ scan'.acc_owner = <<PUMP_PROGRAM>>)
                => /\ pc'[i] = "to_dict"
                   /\ observed'[i].verified =
                          <<<<TRUE, "pump.fun", scan.accounts[scan.idx],
                              scan.signatures[scan.sig_info]>>>>
          /\ (pc[i] = "to_dict" \/ \A j \in Tasks : pc[j] = "done") => log' = log
          /\ scan'.inspected /= scan.inspected
                => LET now == scan'.inspected[Len(scan'.inspected)]
                   IN /\ scan'.inspected = Append(scan.inspected, now)
                      /\ \/ now[3] = 1
                         \/ /\ scan.inspected /= << >>
                            /\ scan.inspected[Len(scan.inspected)]
                                   = <<now[1], now[2], now[3] - 1>>
                      /\ \A q \in DOMAIN scan.inspected :
                             \/ scan.inspected[q][1] < now[1]
                             \/ /\ scan.inspected[q][1] = now[1]
                                /\ scan.inspected[q][2] < now[2]
                             \/ /\ scan.inspected[q][1] = now[1]
                                /\ scan.inspected[q][2] = now[2]
                                /\ scan.inspected[q][3] < now[3]]_vars

\* the second of three accounts of the first of two signatures is owned by
\* the pump program: the verifier returned it, the third account and the
\* second signature were never asked about
C20_Witness ==
    \E i \in Tasks :
        /\ pc[i] = "done"
        /\ Len(scan.signatures) = 2
        /\ Len(scan.accounts) = 3
        /\ scan.inspected = <<<<1, 1, 1>>, <<1, 1, 2>>>>
        /\ observed[i].verified = <<<<TRUE, "pump.fun", "Account2", "Signature1">>>>
        /\ log[Len(log)] = Request("getAccountInfo", "Account2")

(***************************************************************************)
(* Claims about the admission of tasks (checked under Spec)                *)
(***************************************************************************)
\* the tasks awaiting the upstream: inside get_metadata, the mint fetch or
\* verify_pump_token; a task awaits one response at a time
InFlight == {i \in Tasks : pc[i] \in {"get_metadata", "fetch_mint", "verify_pump_token"}}

\* C17: at no moment of a batch are more requests in flight than
\* CONCURRENT_LIMIT, which is 1
C17_InFlightBounded ==
    /\ CONCURRENT_LIMIT = 1
    /\ Cardinality(InFlight) <= CONCURRENT_LIMIT

\* one task is awaiting the upstream while another waits for the permit
C17_Witness ==
    /\ Cardinality(InFlight) = 1
    /\ semaphore = 0
    /\ \E i \in Tasks : pc[i] = "created"

(***************************************************************************)
(* Claims about what the verifier concludes (checked under SpecClient)     *)
(***************************************************************************)

\* the tuple verify_pump_token returned to the analysis inside the block
Concluded(i) == pc[i] = "to_dict" /\ observed[i].verified /= << >>

\* C21: (True, "raydium", account, signature) is concluded from the
\* transactions only when none of the listed signatures references an
\* account of the pump program, so only after every listed signature was
\* inspected
C21_SecondaryAfterEverySignature ==
    \A i \in Tasks :
        (/\ Concluded(i)
         /\ observed[i].verified[1][2] = "raydium"
         /\ observed[i].verified[1][3] /= None)
            => /\ scan.sig_info = Len(scan.signatures)
               /\ \A s \in 1..Len(scan.signatures) :
                      \E q \in DOMAIN scan.inspected : scan.inspected[q][1] = s

\* a request of steps 2-5 is answered by a raise
RaisedAt(i, places) ==
    /\ pc[i] = "verify_pump_token"
    /\ at \in places
    /\ status' = 0

C23_GraduatedIffGenuineRaydium ==
    \A i \in Analysed :
        /\ details[i].token_graduated_to_raydium
               <=> (details[i].is_genuine_pump_fun_token
                    /\ details[i].interacted_with = "raydium")
        /\ ~details[i].is_genuine_pump_fun_token
               => /\ details[i].interacted_with = None
                  /\ details[i].interacting_account = None
                  /\ details[i].interaction_signature = None

C23_Witness ==
    \E i \in Tasks :
        /\ pc[i] = "done"
        /\ details[i].is_genuine_pump_fun_token
        /\ details[i].interacted_with = "pump.fun"
        /\ details[i].interacting_account /= None
        /\ ~details[i].token_graduated_to_raydium

\* C26: within one transaction the owner of each distinct account is asked
\* for at most once
C26_OwnerAskedOncePerTransaction ==
    \A p, q \in DOMAIN scan.inspected :
        (/\ p < q
         /\ scan.inspected[p][1] = scan.sig_info
         /\ scan.inspected[q][1] = scan.sig_info
         /\ scan.accounts /= << >>)
            => scan.accounts[scan.inspected[p][3]] /= scan.accounts[scan.inspected[q][3]]

(***************************************************************************)
(* Claims about the order of the steps (checked under SpecClient)          *)
(***************************************************************************)

\* the analysis admitted last, whose requests log holds
Current ==
    {i \in Tasks : pc[i] /= "created" /\ \A j \in Tasks : j > i => pc[j] = "created"}

MetadataRequests(i) ==
    {p \in Requests : log[p].target = get_metadata_account(TaskAddress(i))}

MintRequests(i) ==
    {p \in Requests : log[p].method = "getAccountInfo" /\ log[p].target = TaskAddress(i)}

\* C27 as stated: the side-record is never asked for before the mint
\* account was fetched
C27_ClassifierBeforeMetadata ==
    \A i \in Current :
        \A p \in MetadataRequests(i) : \E q \in MintRequests(i) : q < p

\* C27 as amended: get_metadata first, then the mint fetch with the
\* classification and the extension parsing, then verify_pump_token, then
\* to_dict: the mint account is never asked for before get_metadata has
\* returned, the verifier sends nothing before the answer to the mint fetch
\* was turned into a record without a raise, and the result is built after
\* the verifier returned
C27_MetadataBeforeClassifier ==
    \A i \in Current :
        LET resolver == MetadataRequests(i)
            classifier == MintRequests(i)
            verifier == VerifierRequests
        IN /\ pc[i] = "get_metadata" => classifier = {} /\ verifier = {}
           /\ classifier /= {}
                  => /\ log[1] = Sleep(BASE_DELAY)
                     /\ \A q \in classifier : \A p \in resolver : p < q
           /\ (classified[i] /= << >> \/ observed[i].response /= << >>)
                  => classifier /= {}
           /\ verifier /= {}
                  => /\ classifier /= {}
                     /\ \A q \in classifier : \A v \in verifier : q < v
                     /\ observed[i].response /= << >>
                     /\ details[i] /= << >>
                     /\ ~raised[i]
           /\ results[i] /= << >>
                  => /\ pc[i] = "done"
                     /\ verifier /= {} => observed[i].verified /= << >>

C27_Witness ==
    \E i \in Current :
        /\ pc[i] = "done"
        /\ results[i] /= << >>
        /\ MetadataRequests(i) /= {}
        /\ MintRequests(i) /= {}
        /\ InspectionRequests /= {}
        /\ details[i].extensions /= << >>

(***************************************************************************)
(* Claims about a batch request by request (checked under SpecClient)      *)
(***************************************************************************)

\* the analyses inside the async with block
InBlock ==
    {i \in Tasks : pc[i] \in {"get_metadata", "fetch_mint", "verify_pump_token", "to_dict"}}

\* every analysis before task i has returned and none after it has started
Alone(i) ==
    /\ \A j \in Tasks : j < i => pc[j] = "done"
    /\ \A j \in Tasks : j > i => pc[j] = "created"

\* C28: with CONCURRENT_LIMIT = 1 the analyses of a batch do not interleave:
\* whenever a sleep or a request is started, it is started by the one
\* analysis inside the block, all earlier addresses are finished and no
\* later address has started; and an address is admitted only when all
\* addresses before it are finished
C28_NoInterleaving ==
    [][\A i \in Tasks :
          /\ (Len(log') > Len(log) /\ i \in InBlock) => (InBlock = {i} /\ Alone(i))
          /\ (pc[i] = "created" /\ pc'[i] /= "created") => (InBlock = {} /\ Alone(i))]_vars

C28_Witness ==
    /\ Len(token_addresses) = 2
    /\ pc[1] = "done"
    /\ pc[2] = "fetch_mint"
    /\ at = "awaiting"
    /\ MetadataRequests(2) /= {}
    /\ MintRequests(2) /= {}

(***************************************************************************)
(* Termination (checked under SpecClientFair)                              *)
(***************************************************************************)

\* C30: when every call comes back, gather returns a result for every
\* address and every permit of the semaphore is back
C30_EveryAnalysisReturns ==
    <>(/\ gathered = "returned"
       /\ DOMAIN returned = DOMAIN token_addresses
       /\ \A i \in Tasks : returned[i] /= << >>
       /\ semaphore = CONCURRENT_LIMIT)

\* the last attempt of get_metadata raised and the analysis went on to a
\* result, behind an analysis that is finished
C30_Witness ==
    /\ gathered = "returned"
    /\ Len(token_addresses) = 2
    /\ semaphore = CONCURRENT_LIMIT
    /\ retry = MAX_RETRIES - 1
    /\ \A i \in Tasks : returned[i] /= << >>

(***************************************************************************)
(* Claims about the command line front door (checked under SpecReport)     *)
(***************************************************************************)

\* C25: the security_review the command line writes into a report equals
\* the one to_dict gives for the same record with the same mitigations
C25_ReportAgreesWithToDict ==
    report /= << >>
        => report[1].security_review
               = to_dict([self EXCEPT !.mitigations = report[1].mitigations]).security_review

(***************************************************************************)
(* Claims about the dashboard (checked under SpecDashboard)                *)
(***************************************************************************)

\* the entry of the session for the check the last run was about
Entry(state, target) == state.batch_mitigations[target[1]][target[2]]

\* C24: Apply Mitigation on a documentation that is empty or whitespace
\* only shows the error and leaves the applied flag of the check, the
\* mitigations of the result and its security_review as they were
C24_BlankDocumentationRefused ==
    [][(/\ notice'.run = "apply"
        /\ clicks' /= clicks
        /\ \A k \in DOMAIN Entry(session, notice'.target).documentation :
               Entry(session, notice'.target).documentation[k] \in whitespace)
          => /\ notice'.shown = "Please provide mitigation documentation before applying."
             /\ Entry(session', notice'.target).applied
                    = Entry(session, notice'.target).applied
             /\ session'.batch_results[notice'.target[1]].mitigations
                    = session.batch_results[notice'.target[1]].mitigations
             /\ session'.batch_results[notice'.target[1]].security_review
                    = session.batch_results[notice'.target[1]].security_review]_vars

\* Apply Mitigation was clicked on a documentation of one blank
C24_Witness ==
    /\ notice.run = "apply"
    /\ notice.shown = "Please provide mitigation documentation before applying."
    /\ Entry(session, notice.target).documentation = <<" ">>
    /\ ~Entry(session, notice.target).applied
    /\ session.batch_results[notice.target[1]].security_review = "FAILED"

\* C29: a check of a result counts as mitigated only when its mitigation
\* was applied for that result: the entry of a failing check is applied only
\* if the result carries it, and a result is PASSED only if it carries an
\* applied mitigation for each of its failing checks
C29_MitigationsOfThisResultOnly ==
    \A i \in DOMAIN session.batch_results :
        LET result == session.batch_results[i]
        IN \A check \in failing_checks(result) :
               /\ session.batch_mitigations[i][check].applied
                      => applied_in(result.mitigations, check)
               /\ result.security_review = "PASSED"
                      => applied_in(result.mitigations, check)

====
